---- MODULE Spec2Model ----
(***************************************************************************)
(* Model of the geometry engine of unwx/flowers: the scanline Area type    *)
(* (src/src/math/area.rs), the area extractor find_inner_area, the         *)
(* occlusion subtraction cull, and the skeleton interpolation that feeds   *)
(* the extractor (src/src/math/mod.rs).                                    *)
(*                                                                         *)
(* The functions are pure; the state machine draws their inputs from       *)
(* bounded sets in Init and applies one function per action.  A run is in  *)
(* one of three modes: the region-algebra mode (two Areas, back and front), *)
(* the extractor mode (a list of grid points), or the row mode (the        *)
(* anchors and curve points of one row of the extractor).  The layer       *)
(* resolver of src/src/flower.rs has a specification of its own,           *)
(* SpecLayers, which follows its loops step by step; so have the random    *)
(* source of src/src/rand.rs (SpecRng) and the polar evaluator of          *)
(* src/src/math/curve.rs (SpecPolar); scale and merge of the same file     *)
(* have SpecCurve.                                                         *)
(***************************************************************************)
EXTENDS Integers, Sequences, FiniteSets

VARIABLES
    pc,         \* which operation has been applied last
    back,       \* input Area of the region algebra (the occluded one)
    front,      \* input Area of the region algebra (the occluder)
    hit,        \* result of Area::intersects(back, front)
    points,     \* grid points handed to interpolate
    skeleton,   \* interpolate(points), the input of find_inner_area
    row_anchors, \* the sorted anchors of one row inside find_inner_area
    row_xs,     \* the sorted x-coordinates of the curve on that row
    row,        \* the ranges find_inner_area builds for that row
    out,        \* Option<Area> returned by cull / optimize / find_inner_area
    front_areas, \* the occluders handed to optimize_back_area
    input_layers, \* the layers as handed to the layer resolver
    layers,     \* Vec<Vec<Petal>>, mutated in place by the resolver
    orders,     \* the shuffled draw-order rank of every petal, per layer
    layer_i,    \* the resolver's loop variable i (1-based)
    layer_y,    \* the resolver's loop variable y (1-based)
    petal_index, \* the resolver's loop variable petal_index (1-based)
    overlapping_petals, \* the occluders of the current petal still to apply
    visible_area, \* optimize_back_area's visible_area
    subtracted, \* per petal, the petals whose areas were subtracted from it
    random,     \* a RestorableRng
    created_seed, \* the seed random was created with
    restored,   \* the RestorableRng returned by random.restore(), if any
    restored_after, \* how many words random had given when restore was called
    restored_values, \* the words drawn from restored so far
    polar,      \* the arguments of the polar evaluator
    scaling,    \* the arguments of scale
    merging,    \* the arguments of merge
    frame,      \* the local variables of cull while it runs
    extent      \* the extreme coordinates of a skeleton or an Area

geometry == <<back, front, hit, points, skeleton, row_anchors, row_xs, row>>

resolver == <<front_areas, input_layers, layers, orders, layer_i, layer_y,
              petal_index, overlapping_petals, visible_area, subtracted>>

sampling == <<random, created_seed, restored, restored_after, restored_values, polar,
              scaling, merging, frame, extent>>

vars == <<pc, out, geometry, resolver, sampling>>

(***************************************************************************)
(* Bounds of the model.                                                    *)
(***************************************************************************)
\* an input Area of the region algebra fits a window of at most MaxCells
\* cells: n rows (1 <= n <= MaxCells) over the columns 0 .. MaxCells \div n - 1
MaxCells == 4
\* control points lie in the window (0 .. MaxPX) x (0 .. MaxPY)
MaxPX == 3
MaxPY == 2
\* at most MaxPts control points are handed to interpolate
MaxPts == 3
\* a row of the extractor has x-coordinates 0 .. MaxRowX
MaxRowX == 4
\* at most MaxRowLen curve points and MaxAnchors anchors on a row
MaxRowLen == 4
MaxAnchors == 5
\* a long segment runs from the origin to a point whose coordinates have
\* magnitude MaxFar - 1 or MaxFar
MaxFar == 5443
\* the layers handed to the resolver hold at most MaxShapes petals in all
MaxShapes == 3
\* the random source is created with a seed 0 .. MaxSeed and gives at most
\* MaxDraws words of WordBits bits
MaxSeed == 3
MaxDraws == 4
WordBits == 8
\* of a curve of the polar evaluator the first MaxKept points and the last
\* point are kept
MaxKept == 4
\* a closed skeleton handed to find_inner_area has at most MaxWalk steps
MaxWalk == 6
\* a real curve handed to scale has at most MaxCurve points, with coordinates
\* up to MaxHalves / 2, and a factor up to MaxFactor
MaxCurve == 3
MaxHalves == 2
MaxFactor == 2
\* merge is handed at most MaxFragments fragments of at most MaxFragLen
\* points with x up to MaxFragX
MaxFragments == 2
MaxFragLen == 2
MaxFragX == 1
\* the coordinates of the width check are within MaxEdge of an end of the
\* allowed interval
MaxEdge == 1

(***************************************************************************)
(* Faulty variants.  Several operators below are preceded by a variant     *)
(* that makes a slip the code could make (an off-by-one, a wrong variable, *)
(* a missing step); each property is also checked against one of them, to  *)
(* see that it depends on the operator.                                    *)
(*   Line_intersects_strict      > instead of >= on the x-extents          *)
(*   Area_intersects_skip_last   from_y..to_y instead of from_y..=to_y     *)
(*   Area_optimize_keep_all      returns the Area as it is                 *)
(*   Area_optimize_keep_tail     drops only the leading empty rows         *)
(*   Area_optimize_from_zero     unwrap_or(0) instead of ? on the indices  *)
(*   EmitRange_one_apart         >= 1 instead of > 1 on the trimmed pair   *)
(*   AfterFront_touching         front.to instead of front.to + 1          *)
(*   Remaining_no_skip           appends every back range again            *)
(*   SetVisible_no_offset        index y instead of y - min_y              *)
(*   VisibleWhenDisjoint_front   keeps the front line, not the back line   *)
(*   CopyRemaining_none          no trailing copy of the back rows         *)
(*   EmitRange_closed            actual_x1 instead of actual_x1 + 1        *)
(*   VisibleAfter_swapped        the front behind the back                 *)
(*   find_overlapping_petals_by_angle  only the petals whose sector meets  *)
(*   restore_as_clone            a copy of the generator as it stands      *)
(*   OriginParity_row_zero       the row y = 0 and x = 0, not curve[0]     *)
(*   LastPair_none               an odd last anchor is left unpaired       *)
(*   MAX_RADIUS_half             i16::MAX / 2 + 1, one more than a half     *)
(*   SkipFront_stay              the front range index is not advanced     *)
(*   PushScaled_every            keeps a point equal to the last kept one  *)
(*   ZigZagIterator_basic        every fragment is walked forward          *)
(*   OriginAfter_last            the origin only after the last fragment   *)
(*   TrimX2_none                 the right end of a pair is never moved    *)
(***************************************************************************)

(***************************************************************************)
(* Option<T> and panics.                                                   *)
(***************************************************************************)
None == [tag |-> "None"]
Some(v) == [tag |-> "Some", val |-> v]
Panic == [tag |-> "Panic"]

IsSome(o) == o.tag = "Some"

\* the ends of the i16 range
I16Min == -32768
I16Max == 32767

Min2(a, b) == IF a <= b THEN a ELSE b
Max2(a, b) == IF a >= b THEN a ELSE b

(***************************************************************************)
(* Range, Line, Area (src/src/math/area.rs).                               *)
(***************************************************************************)
\* Range::new asserts from <= to_inclusive
Range_new_ok(from, to) == from <= to
Range_new(from, to) == [from |-> from, to |-> to]

\* Line::new asserts previous_range.to_inclusive <= range.from
Line_new_ok(ranges) ==
    \A i \in 2..Len(ranges) : ranges[i-1].to <= ranges[i].from

Line_is_empty(line) == Len(line) = 0

\* Line::min_x / Line::max_x; only used on non-empty lines
Line_min_x(line) == line[1].from
Line_max_x(line) == line[Len(line)].to

Line_intersects_strict(line, other) ==
    IF Line_is_empty(line) \/ Line_is_empty(other)
    THEN FALSE
    ELSE Line_max_x(line) > Line_min_x(other) /\ Line_max_x(other) > Line_min_x(line)

Line_intersects(line, other) ==
    IF Line_is_empty(line) \/ Line_is_empty(other)
    THEN FALSE
    ELSE Line_max_x(line) >= Line_min_x(other) /\ Line_max_x(other) >= Line_min_x(line)

RECURSIVE SumRanges(_, _)
SumRanges(line, i) ==
    IF i > Len(line) THEN 0
    ELSE (line[i].to - line[i].from) + 1 + SumRanges(line, i + 1)

Line_coverage(line) == SumRanges(line, 1)

\* Area::new asserts a non-empty line vector; max_y = min_y + len - 1
Area_new(lines, min_y) ==
    [lines |-> lines, min_y |-> min_y, max_y |-> min_y + Len(lines) - 1]

\* Area::line; only used with min_y <= y <= max_y
Area_line(area, y) == area.lines[(y - area.min_y) + 1]

RECURSIVE SumLines(_, _)
SumLines(lines, i) ==
    IF i > Len(lines) THEN 0
    ELSE Line_coverage(lines[i]) + SumLines(lines, i + 1)

Area_coverage(area) == SumLines(area.lines, 1)

RECURSIVE IntersectsFrom(_, _, _, _)
IntersectsFrom(area, other, y, to_y) ==
    IF y > to_y THEN FALSE
    ELSE IF Line_intersects(Area_line(area, y), Area_line(other, y)) THEN TRUE
    ELSE IntersectsFrom(area, other, y + 1, to_y)

Area_intersects_skip_last(area, other) ==
    IF area.min_y > other.max_y \/ other.min_y > area.max_y
    THEN FALSE
    ELSE IntersectsFrom(area, other, Max2(area.min_y, other.min_y),
                        Min2(area.max_y, other.max_y) - 1)

Area_intersects(area, other) ==
    IF area.min_y > other.max_y \/ other.min_y > area.max_y
    THEN FALSE
    ELSE IntersectsFrom(area, other, Max2(area.min_y, other.min_y),
                        Min2(area.max_y, other.max_y))

\* position / rposition of the first / last non-empty line, 0 when there is none
RECURSIVE Position(_, _)
Position(lines, i) ==
    IF i > Len(lines) THEN 0
    ELSE IF ~Line_is_empty(lines[i]) THEN i
    ELSE Position(lines, i + 1)

RECURSIVE RPosition(_, _)
RPosition(lines, i) ==
    IF i < 1 THEN 0
    ELSE IF ~Line_is_empty(lines[i]) THEN i
    ELSE RPosition(lines, i - 1)

Area_optimize_keep_all(area) == Some(area)

Area_optimize_keep_tail(area) ==
    LET start == Position(area.lines, 1)
    IN  IF start = 0 THEN None
        ELSE Some(Area_new(SubSeq(area.lines, start, Len(area.lines)),
                           (start - 1) + area.min_y))

Area_optimize_from_zero(area) ==
    LET start == Position(area.lines, 1)
        end == RPosition(area.lines, Len(area.lines))
    IN  IF end = 0 THEN Some(Area_new(SubSeq(area.lines, 1, 1), area.min_y))
        ELSE Some(Area_new(SubSeq(area.lines, start, end), (start - 1) + area.min_y))

Area_optimize(area) ==
    LET start == Position(area.lines, 1)
        end == RPosition(area.lines, Len(area.lines))
    IN  IF start = 0 \/ end = 0 THEN None
        ELSE Some(Area_new(SubSeq(area.lines, start, end), (start - 1) + area.min_y))

(***************************************************************************)
(* cull (src/src/math/area.rs): what remains of back_area after            *)
(* front_area occludes it.                                                 *)
(***************************************************************************)
\* "(___[...?": the part of the back range before the front range
BeforeFront(back_range, front_range) ==
    Range_new(back_range.from, front_range.from - 1)

AfterFront_touching(back_range, front_range) ==
    Range_new(front_range.to, back_range.to)

\* "?...]___)": the part of the back range after the front range
AfterFront(back_range, front_range) ==
    Range_new(front_range.to + 1, back_range.to)

Remaining_no_skip(back_line, back_line_index) == back_line

\* back_line.iter().skip(back_line_index); back_line_index is 1-based here
Remaining(back_line, back_line_index) ==
    SubSeq(back_line, back_line_index, Len(back_line))

\* The inner while loop over the ranges of one shared row.  Both Range::new
\* calls are guarded by the comparison that makes from <= to_inclusive.
RECURSIVE CullRanges(_, _, _, _, _)
CullRanges(back_line, front_line, back_line_index, front_line_index, ranges) ==
    IF back_line_index <= Len(back_line) /\ front_line_index <= Len(front_line)
    THEN LET b == back_line[back_line_index]
             f == front_line[front_line_index]
         IN  IF b.to < f.from
             THEN CullRanges(back_line, front_line, back_line_index + 1,
                             front_line_index, Append(ranges, b))
             ELSE IF f.to < b.from
             THEN CullRanges(back_line, front_line, back_line_index,
                             front_line_index + 1, ranges)
             ELSE LET pre == IF b.from < f.from
                             THEN Append(ranges, BeforeFront(b, f))
                             ELSE ranges
                  IN  IF f.to < b.to
                      THEN CullRanges(back_line, front_line, back_line_index + 1,
                                      front_line_index + 1, Append(pre, AfterFront(b, f)))
                      ELSE CullRanges(back_line, front_line, back_line_index + 1,
                                      front_line_index, pre)
    ELSE ranges \o Remaining(back_line, back_line_index)

SetVisible_no_offset(visible_lines, min_y, y, line) ==
    [visible_lines EXCEPT ![y + 1] = line]

\* set_visible: visible_lines[(y - min_y) as usize] = line
SetVisible(visible_lines, min_y, y, line) ==
    [visible_lines EXCEPT ![(y - min_y) + 1] = line]

VisibleWhenDisjoint_front(back_line, front_line) == front_line

\* the row kept when the two lines of a shared row do not intersect
VisibleWhenDisjoint(back_line, front_line) == back_line

CopyRemaining_none(back_area, min_y, back_y, visible_lines) == visible_lines

\* the trailing loop: for y in back_y..=back_area.max_y() { set_visible(y, ..) }
CopyRemaining(back_area, min_y, back_y, visible_lines) ==
    [i \in 1..Len(visible_lines) |->
        LET y == (i - 1) + min_y
        IN  IF y >= back_y /\ y <= back_area.max_y
            THEN Area_line(back_area, y)
            ELSE visible_lines[i]]

\* The outer while loop over the rows; ok is FALSE when Line::new panics.
RECURSIVE CullRows(_, _, _, _, _, _)
CullRows(back_area, front_area, min_y, back_y, front_y, visible_lines) ==
    IF back_y <= back_area.max_y /\ front_y <= front_area.max_y
    THEN LET back_line == Area_line(back_area, back_y)
             front_line == Area_line(front_area, front_y)
         IN  IF back_y = front_y
             THEN IF ~Line_intersects(back_line, front_line)
                  THEN CullRows(back_area, front_area, min_y, back_y + 1, front_y,
                                SetVisible(visible_lines, min_y, back_y,
                                           VisibleWhenDisjoint(back_line, front_line)))
                  ELSE LET ranges == CullRanges(back_line, front_line, 1, 1, <<>>)
                       IN  IF ~Line_new_ok(ranges)
                           THEN [ok |-> FALSE, lines |-> visible_lines]
                           ELSE CullRows(back_area, front_area, min_y, back_y + 1,
                                         front_y + 1,
                                         SetVisible(visible_lines, min_y, back_y, ranges))
             ELSE IF back_y > front_y
             THEN CullRows(back_area, front_area, min_y, back_y, front_y + 1,
                           visible_lines)
             ELSE CullRows(back_area, front_area, min_y, back_y + 1, front_y,
                           SetVisible(visible_lines, min_y, back_y, back_line))
    ELSE [ok |-> TRUE,
          lines |-> CopyRemaining(back_area, min_y, back_y, visible_lines)]

\* visible_lines before Area::new(..).optimize()
CullLines(back_area, front_area) ==
    LET min_y == Min2(back_area.min_y, front_area.min_y)
        max_y == Max2(back_area.max_y, front_area.max_y)
        empty == [i \in 1..((max_y - min_y) + 1) |-> <<>>]
    IN  CullRows(back_area, front_area, min_y, back_area.min_y,
                 Max2(front_area.min_y, back_area.min_y), empty)

cull(back_area, front_area) ==
    LET r == CullLines(back_area, front_area)
    IN  IF ~r.ok THEN Panic
        ELSE Area_optimize(Area_new(r.lines,
                                    Min2(back_area.min_y, front_area.min_y)))

(***************************************************************************)
(* interpolate (src/src/math/mod.rs): fills the gap between consecutive    *)
(* grid points with the points of the straight line at unit steps.         *)
(***************************************************************************)
Abs(n) == IF n >= 0 THEN n ELSE -n

(***************************************************************************)
(* The f32 arithmetic of the loop body, round(diff * (step / steps)), with *)
(* the rounding of each operation: step / steps and diff * progress are    *)
(* rounded to 24 significant bits, ties to even, and f32::round takes      *)
(* halves away from zero.  A positive f32 is kept as [man, exp], the value *)
(* man / 2^exp.  Valid for 0 < step <= steps < 2^15 and |diff| <= steps,   *)
(* which holds for i16 coordinates of magnitude up to 16382.               *)
(***************************************************************************)
Pow2(k) == 2 ^ k

\* number of bits of v >= 0
RECURSIVE BitLen(_)
BitLen(v) == IF v = 0 THEN 0 ELSE 1 + BitLen(v \div 2)

\* the smallest e with num * 2^e >= den
RECURSIVE ShiftFor(_, _)
ShiftFor(num, den) == IF num >= den THEN 0 ELSE 1 + ShiftFor(2 * num, den)

\* k more bits of the binary long division by den; rem < den
RECURSIVE DivBits(_, _, _, _)
DivBits(quot, rem, den, k) ==
    IF k = 0 THEN [quot |-> quot, rem |-> rem]
    ELSE IF 2 * rem >= den
         THEN DivBits((2 * quot) + 1, (2 * rem) - den, den, k - 1)
         ELSE DivBits(2 * quot, 2 * rem, den, k - 1)

\* step / steps in f32, for 0 < step < steps
F32Quotient(step, steps) ==
    LET e == ShiftFor(step, steps)
        d == DivBits(1, (step * Pow2(e)) - steps, steps, 23)
        up == (2 * d.rem > steps) \/ (2 * d.rem = steps /\ d.quot % 2 = 1)
    IN  [man |-> IF up THEN d.quot + 1 ELSE d.quot, exp |-> e + 23]

\* diff * progress in f32, for 0 <= diff < 2^15; the exact product is
\* hi * 4096 + lo
F32Product(diff, progress) ==
    LET mh == progress.man \div 4096
        ml == progress.man % 4096
        hi == (diff * mh) + ((diff * ml) \div 4096)
        lo == (diff * ml) % 4096
        len == IF hi > 0 THEN BitLen(hi) + 12 ELSE BitLen(lo)
        k == len - 24
    IN  IF k <= 0 THEN [man |-> (hi * 4096) + lo, exp |-> progress.exp]
        ELSE LET keep == IF k <= 12 THEN (hi * Pow2(12 - k)) + (lo \div Pow2(k))
                         ELSE hi \div Pow2(k - 12)
                 rest == IF k <= 12 THEN lo % Pow2(k)
                         ELSE ((hi % Pow2(k - 12)) * 4096) + lo
                 half == Pow2(k - 1)
                 up == (rest > half) \/ (rest = half /\ keep % 2 = 1)
             IN  [man |-> IF up THEN keep + 1 ELSE keep, exp |-> progress.exp - k]

\* f32::round of a positive f32: halves away from zero
F32Round(v) ==
    IF v.exp <= 0 THEN v.man * Pow2(-v.exp)
    ELSE IF v.exp > 26 THEN 0
    ELSE (v.man \div Pow2(v.exp))
         + (IF v.man % Pow2(v.exp) >= Pow2(v.exp - 1) THEN 1 ELSE 0)

\* (diff * (step / steps)).round() as an integer; the sign of diff passes
\* through every operation unchanged
RoundScaled(diff, step, steps) ==
    IF diff = 0 THEN 0
    ELSE IF step = steps THEN diff
    ELSE LET r == F32Round(F32Product(Abs(diff), F32Quotient(step, steps)))
         IN  IF diff > 0 THEN r ELSE -r

Point(x, y) == [x |-> x, y |-> y]

\* the while loop: step = 1.0, 2.0, .. while step <= steps; each pass
\* pushes one point, computed from step alone
InterpolateSteps(previous_point, dx, dy, steps) ==
    [step \in 1..steps |->
        Point(previous_point.x + RoundScaled(dx, step, steps),
              previous_point.y + RoundScaled(dy, step, steps))]

RECURSIVE InterpolateFrom(_, _)
InterpolateFrom(pts, i) ==
    IF i > Len(pts) THEN <<>>
    ELSE LET dx == pts[i].x - pts[i-1].x
             dy == pts[i].y - pts[i-1].y
         IN  InterpolateSteps(pts[i-1], dx, dy, Max2(Abs(dx), Abs(dy)))
             \o InterpolateFrom(pts, i + 1)

interpolate(pts) ==
    IF Len(pts) = 0 THEN <<>>
    ELSE <<pts[1]>> \o InterpolateFrom(pts, 2)

(***************************************************************************)
(* find_inner_area (src/src/math/area.rs): the rows of cells enclosed by a *)
(* discrete curve.  Sequences are 1-based here; the indices the code keeps *)
(* (x1_index, x2_index, curve_x_offset, anchor_index) stay 0-based.        *)
(***************************************************************************)
\* sort_unstable on integers
RECURSIVE InsertSorted(_, _)
InsertSorted(sorted, x) ==
    IF Len(sorted) = 0 THEN <<x>>
    ELSE IF x <= sorted[1] THEN <<x>> \o sorted
    ELSE <<sorted[1]>> \o InsertSorted(Tail(sorted), x)

RECURSIVE SortInts(_)
SortInts(xs) ==
    IF Len(xs) = 0 THEN <<>>
    ELSE InsertSorted(SortInts(Tail(xs)), xs[1])

CurveMinY(curve) == CHOOSE m \in {curve[i].y : i \in 1..Len(curve)} :
                        \A i \in 1..Len(curve) : m <= curve[i].y
CurveMaxY(curve) == CHOOSE m \in {curve[i].y : i \in 1..Len(curve)} :
                        \A i \in 1..Len(curve) : m >= curve[i].y

\* the anchor pass: for i in 1..curve.len()
RECURSIVE AnchorPass(_, _, _, _, _)
AnchorPass(curve, min_y, i, anchor_lines, last_y_diff) ==
    IF i > Len(curve) THEN anchor_lines
    ELSE LET point == curve[i]
             previous_point == curve[i-1]
             y_diff == point.y - previous_point.y
         IN  IF y_diff = 0
             THEN AnchorPass(curve, min_y, i + 1, anchor_lines, last_y_diff)
             ELSE LET index == (previous_point.y - min_y) + 1
                      turned ==
                          IF last_y_diff # y_diff /\ Len(anchor_lines[index]) > 0
                          THEN [anchor_lines EXCEPT ![index] = Append(@, @[Len(@)])]
                          ELSE anchor_lines
                      pushed ==
                          [turned EXCEPT ![(point.y - min_y) + 1] = Append(@, point.x)]
                  IN  AnchorPass(curve, min_y, i + 1, pushed, y_diff)

OriginParity_row_zero(curve, min_y, anchor_lines) ==
    LET index == (0 - min_y) + 1
    IN  IF index \in 1..Len(anchor_lines) /\ Len(anchor_lines[index]) % 2 # 0
        THEN [anchor_lines EXCEPT ![index] = Append(@, 0)]
        ELSE anchor_lines

\* the parity correction on the row of curve[0]
OriginParity(curve, min_y, anchor_lines) ==
    LET origin == curve[1]
        index == (origin.y - min_y) + 1
    IN  IF Len(anchor_lines[index]) % 2 # 0
        THEN [anchor_lines EXCEPT ![index] = Append(@, origin.x)]
        ELSE anchor_lines

\* the anchors the pass over the curve gives every row
PassedAnchors(curve) ==
    LET min_y == CurveMinY(curve)
        y_length == (CurveMaxY(curve) - min_y) + 1
    IN  AnchorPass(curve, min_y, 2, [r \in 1..y_length |-> <<>>], 0)

\* the anchors of every row before they are sorted
RawAnchors(curve) == OriginParity(curve, CurveMinY(curve), PassedAnchors(curve))

\* the sorted anchors of every row
AnchorLines(curve) ==
    LET raw == RawAnchors(curve)
    IN  [r \in 1..Len(raw) |-> SortInts(raw[r])]

\* the x-coordinates of the curve's points on one row, in curve order
RECURSIVE RowXs(_, _, _)
RowXs(curve, y, i) ==
    IF i > Len(curve) THEN <<>>
    ELSE IF curve[i].y = y THEN <<curve[i].x>> \o RowXs(curve, y, i + 1)
    ELSE RowXs(curve, y, i + 1)

\* the shadowing `curve`: per row, the sorted x-coordinates of its points
CurveLines(curve) ==
    LET min_y == CurveMinY(curve)
        y_length == (CurveMaxY(curve) - min_y) + 1
    IN  [r \in 1..y_length |-> SortInts(RowXs(curve, (r - 1) + min_y, 1))]

\* line.iter().skip(start).position(|&x| x == value).map(|i| i + start);
\* -1 stands for None
RECURSIVE FindFrom(_, _, _)
FindFrom(line, start, value) ==
    IF start >= Len(line) THEN -1
    ELSE IF line[start + 1] = value THEN start
    ELSE FindFrom(line, start + 1, value)

\* for i in (x1_index + 1)..x2_index: absorb boundary points at most 1 apart
RECURSIVE TrimX1(_, _, _, _, _)
TrimX1(line, i, x2_index, actual_x1, x1_index) ==
    IF i >= x2_index THEN [x |-> actual_x1, index |-> x1_index]
    ELSE IF line[i + 1] - actual_x1 > 1 THEN [x |-> actual_x1, index |-> x1_index]
    ELSE TrimX1(line, i + 1, x2_index, line[i + 1], x1_index + 1)

TrimX2_none(line, i, x1_index, actual_x2) == actual_x2

\* while i > x1_index, walking down from x2_index - 1
RECURSIVE TrimX2(_, _, _, _)
TrimX2(line, i, x1_index, actual_x2) ==
    IF i <= x1_index THEN actual_x2
    ELSE IF actual_x2 - line[i + 1] > 1 THEN actual_x2
    ELSE TrimX2(line, i - 1, x1_index, line[i + 1])

EmitRange_one_apart(actual_x1, actual_x2) ==
    IF actual_x2 - actual_x1 >= 1
    THEN <<Range_new(actual_x1 + 1, actual_x2 - 1)>>
    ELSE <<>>

EmitRange_closed(actual_x1, actual_x2) ==
    IF actual_x2 - actual_x1 > 1
    THEN <<Range_new(actual_x1, actual_x2 - 1)>>
    ELSE <<>>

\* area[..].push(Range::new(actual_x1 + 1, actual_x2 - 1)) when the trimmed
\* pair is more than 1 apart
EmitRange(actual_x1, actual_x2) ==
    IF actual_x2 - actual_x1 > 1
    THEN <<Range_new(actual_x1 + 1, actual_x2 - 1)>>
    ELSE <<>>

\* the closure push_range on one row: last is the returned Option<usize>
\* (-1 for None), pushed the ranges it appended (none or one)
PushRange(x1, x2, line, curve_x_offset) ==
    IF x2 - x1 <= 1 THEN [last |-> -1, pushed |-> <<>>]
    ELSE LET x1_index == FindFrom(line, curve_x_offset, x1)
         IN  IF x1_index = -1 THEN [last |-> -1, pushed |-> <<>>]
             ELSE LET x2_index == FindFrom(line, x1_index, x2)
                  IN  IF x2_index = -1 THEN [last |-> -1, pushed |-> <<>>]
                      ELSE LET t1 == TrimX1(line, x1_index + 1, x2_index, x1, x1_index)
                               actual_x2 ==
                                   IF x2_index # 0
                                   THEN TrimX2(line, x2_index - 1, t1.index, x2)
                                   ELSE x2
                           IN  [last |-> x2_index,
                                pushed |-> EmitRange(t1.x, actual_x2)]

\* while anchor_index < anchors.len() - 1: the pairs handed to push_range,
\* anchor_index += 2 after each
RECURSIVE LoopPairs(_, _)
LoopPairs(anchors, anchor_index) ==
    IF anchor_index >= Len(anchors) - 1 THEN <<>>
    ELSE <<[x1 |-> anchors[anchor_index + 1], x2 |-> anchors[anchor_index + 2],
            again |-> FALSE]>>
         \o LoopPairs(anchors, anchor_index + 2)

LastPair_none(anchors) == <<>>

\* if anchors.len() % 2 != 0: the last two anchors once more
LastPair(anchors) ==
    IF Len(anchors) % 2 # 0
    THEN <<[x1 |-> anchors[Len(anchors) - 1], x2 |-> anchors[Len(anchors)],
            again |-> TRUE]>>
    ELSE <<>>

\* the pairs of anchors handed to push_range on one row, in order
CandidatePairs(anchors) ==
    IF Len(anchors) <= 1 THEN <<>>
    ELSE LoopPairs(anchors, 0) \o LastPair(anchors)

\* push_range on every pair: curve_x_offset follows the last index found,
\* the pair that is taken again starts from 0
RECURSIVE PushPairs(_, _, _)
PushPairs(pairs, line, curve_x_offset) ==
    IF Len(pairs) = 0 THEN <<>>
    ELSE LET pair == Head(pairs)
             r == PushRange(pair.x1, pair.x2, line,
                            IF pair.again THEN 0 ELSE curve_x_offset)
         IN  r.pushed \o PushPairs(Tail(pairs), line,
                                   IF r.last = -1 THEN curve_x_offset ELSE r.last)

\* the ranges of one row
RowRanges(anchors, line) == PushPairs(CandidatePairs(anchors), line, 0)

\* the Vec<Vec<Range>> `area` before Area::new(..).optimize()
InnerLines(curve) ==
    LET anchor_lines == AnchorLines(curve)
        lines == CurveLines(curve)
    IN  [r \in 1..Len(anchor_lines) |-> RowRanges(anchor_lines[r], lines[r])]

\* the assertions a row of ranges passes through: Range::new on each
\* range pushed, Line::new on the row
RowOk(ranges) ==
    /\ \A i \in 1..Len(ranges) : Range_new_ok(ranges[i].from, ranges[i].to)
    /\ Line_new_ok(ranges)

find_inner_area(curve) ==
    IF Len(curve) <= 1 THEN None
    ELSE LET lines == InnerLines(curve)
         IN  IF \E r \in 1..Len(lines) : ~RowOk(lines[r]) THEN Panic
             ELSE Area_optimize(Area_new(lines, CurveMinY(curve)))

(***************************************************************************)
(* The layer resolver, optimize_layers_and_shuffle_petals                  *)
(* (src/src/flower.rs).  A petal's area is a list of ranges there, empty   *)
(* when nothing is covered; it is kept here as an Option<Area>, None for   *)
(* the empty list.  Indices are 1-based.                                   *)
(***************************************************************************)
Petal_new(skeleton_points, area, left_side_angle, center_angle, right_side_angle) ==
    [skeleton |-> skeleton_points, area |-> area,
     left_side_angle |-> left_side_angle, center_angle |-> center_angle,
     right_side_angle |-> right_side_angle]

\* what remains visible of back behind front: s.area = cull(s.area, front.area)
find_visible_back_area(back_area, front_area) ==
    IF ~IsSome(back_area) THEN back_area
    ELSE IF ~IsSome(front_area) THEN back_area
    ELSE cull(back_area.val, front_area.val)

VisibleAfter_swapped(visible, front_area) ==
    find_visible_back_area(front_area, visible)

\* one pass of the occluder loop of optimize_back_area
VisibleAfter(visible, front_area) ==
    find_visible_back_area(visible, front_area)

\* optimize_back_area: back behind every front, applied one after another
RECURSIVE optimize_back_area(_, _)
optimize_back_area(back_area, fronts) ==
    IF Len(fronts) = 0 THEN back_area
    ELSE optimize_back_area(VisibleAfter(back_area, Head(fronts)), Tail(fronts))

\* the closure overlaps of find_overlapping_petals: the angular sectors of
\* two petals meet
overlaps(petal, other_petal) ==
    IF petal.left_side_angle <= petal.right_side_angle
    THEN /\ petal.left_side_angle <= other_petal.right_side_angle
         /\ other_petal.left_side_angle <= petal.right_side_angle
    ELSE \/ petal.left_side_angle <= other_petal.right_side_angle
         \/ other_petal.left_side_angle <= petal.right_side_angle

find_overlapping_petals_by_angle(petal, petals) ==
    SelectSeq([k \in 1..Len(petals) |-> k], LAMBDA k : overlaps(petal, petals[k]))

\* find_overlapping_petals: the indices left_index and right_index found
\* from the angles are not used (from_left_petal_index = 0,
\* to_right_petal_index = petals.len() - 1), every petal is returned
find_overlapping_petals(petal, petals) ==
    IF Len(petals) = 0 THEN <<>>
    ELSE [k \in 1..Len(petals) |-> k]

\* the filter applied when i == y: the petals drawn after this one
InFrontInLayer(found, order, petal_order) ==
    SelectSeq(found, LAMBDA other_petal_index : order[other_petal_index] > petal_order)

\* the occluders of layers[i][p] found in layers[y]
OverlappingPetals(all_layers, all_orders, i, y, p) ==
    LET found == find_overlapping_petals(all_layers[i][p], all_layers[y])
    IN  IF i = y
        THEN InFrontInLayer(found, all_orders[y], all_orders[i][p])
        ELSE found

(***************************************************************************)
(* Inputs of the region algebra: every Area of n rows whose Lines satisfy   *)
(* the Line invariant and lie in the columns 0 .. MaxCells \div n - 1       *)
(* (trimmed or not, empty or not); wide one-row Areas exercise the range   *)
(* loop of cull, tall narrow ones its row loop.                            *)
(***************************************************************************)
\* the maximal runs of a set of columns, ascending
RECURSIVE RunsOf(_, _, _)
RunsOf(cols, x, lim) ==
    IF x > lim THEN <<>>
    ELSE IF x \notin cols THEN RunsOf(cols, x + 1, lim)
    ELSE LET end == CHOOSE e \in x..lim :
                        /\ \A c \in x..e : c \in cols
                        /\ (e + 1) \notin cols
         IN  <<Range_new(x, end)>> \o RunsOf(cols, end + 1, lim)

AllLines(max_x) == {RunsOf(cols, 0, max_x) : cols \in SUBSET (0..max_x)}

AllLineVecs == UNION {[1..n -> AllLines((MaxCells \div n) - 1)] : n \in 1..MaxCells}

BackAreas == {Area_new(ls, 0) : ls \in AllLineVecs}

FrontAreas == {Area_new(ls, y) : ls \in AllLineVecs, y \in (1 - MaxCells)..(MaxCells - 1)}

(***************************************************************************)
(* The state machine.                                                      *)
(***************************************************************************)
NoArea == Area_new(<<<<>>>>, 0)

\* the resolver's variables while the geometry functions are exercised
NoLayers ==
    /\ front_areas = <<>>
    /\ input_layers = <<>>
    /\ layers = <<>>
    /\ orders = <<>>
    /\ layer_i = 0
    /\ layer_y = 0
    /\ petal_index = 0
    /\ overlapping_petals = <<>>
    /\ visible_area = None
    /\ subtracted = <<>>

\* the random source, the curve functions and the locals of cull while they
\* are not exercised
NoSampling ==
    /\ random = None
    /\ created_seed = 0
    /\ restored = None
    /\ restored_after = 0
    /\ restored_values = <<>>
    /\ polar = None
    /\ scaling = None
    /\ merging = None
    /\ frame = None
    /\ extent = None

InitAlgebra ==
    /\ pc = "areas"
    /\ back \in BackAreas
    /\ front \in FrontAreas
    /\ hit = FALSE
    /\ points = <<>>
    /\ skeleton = <<>>
    /\ row_anchors = <<>>
    /\ row_xs = <<>>
    /\ row = None
    /\ out = None
    /\ NoLayers
    /\ NoSampling

\* the control points: every list of at most MaxPts points of the window
Window == {Point(x, y) : x \in 0..MaxPX, y \in 0..MaxPY}

PointLists == UNION {[1..n -> Window] : n \in 0..MaxPts}

InitExtractor ==
    /\ pc = "points"
    /\ points \in PointLists
    /\ back = NoArea
    /\ front = NoArea
    /\ hit = FALSE
    /\ skeleton = <<>>
    /\ row_anchors = <<>>
    /\ row_xs = <<>>
    /\ row = None
    /\ out = None
    /\ NoLayers
    /\ NoSampling

\* one row inside find_inner_area: the curve's x-coordinates on the row,
\* sorted, and sorted anchors, each the x-coordinate of a curve point of
\* the row (an anchor is pushed from a point of the row or repeats one)
SortedSeqs(n, S) == {q \in [1..n -> S] : \A i \in 1..(n - 1) : q[i] <= q[i+1]}

RowLines == UNION {SortedSeqs(n, 0..MaxRowX) : n \in 0..MaxRowLen}

RowAnchors(line) ==
    UNION {SortedSeqs(n, {line[i] : i \in 1..Len(line)}) : n \in 0..MaxAnchors}

InitRow ==
    /\ pc = "row"
    /\ row_xs \in RowLines
    /\ row_anchors \in RowAnchors(row_xs)
    /\ points = <<>>
    /\ back = NoArea
    /\ front = NoArea
    /\ hit = FALSE
    /\ skeleton = <<>>
    /\ row = None
    /\ out = None
    /\ NoLayers
    /\ NoSampling

\* one long segment: two control points far apart, as between the end of a
\* curve fragment and the origin that merge inserts
FarPoints ==
    {Point(sx * ax, sy * ay) : sx \in {-1, 1}, sy \in {-1, 1},
                               ax \in (MaxFar - 1)..MaxFar, ay \in (MaxFar - 1)..MaxFar}

InitFar ==
    /\ pc = "far"
    /\ points \in {<<Point(0, 0), p>> : p \in FarPoints}
    /\ back = NoArea
    /\ front = NoArea
    /\ hit = FALSE
    /\ skeleton = <<>>
    /\ row_anchors = <<>>
    /\ row_xs = <<>>
    /\ row = None
    /\ out = None
    /\ NoLayers
    /\ NoSampling

Init == InitAlgebra \/ InitExtractor \/ InitRow \/ InitFar

\* the geometry variables while the resolver runs
NoGeometry ==
    /\ back = NoArea
    /\ front = NoArea
    /\ hit = FALSE
    /\ points = <<>>
    /\ skeleton = <<>>
    /\ row_anchors = <<>>
    /\ row_xs = <<>>
    /\ row = None

\* the areas of the petals handed to the resolver: nothing, or any set of
\* cells of one row of PetalCols columns, half the width of the region
\* algebra's inputs
PetalCols == MaxCells \div 2

PetalAreas == {None} \cup {Some(Area_new(<<l>>, 0)) : l \in AllLines(PetalCols - 1) \ {<<>>}}

\* random_layer: the petals of a layer follow one another around the
\* centre, so the angles of a petal are given by its index in the layer
PetalsOf(areas) ==
    [p \in 1..Len(areas) |->
        Petal_new(<<>>, areas[p], 3 * (p - 1), 3 * (p - 1) + 1, 3 * (p - 1) + 2)]

\* every way to put n petals into non-empty layers
RECURSIVE Layerings(_)
Layerings(n) ==
    IF n = 0 THEN {<<>>}
    ELSE UNION {{<<PetalsOf(areas)>> \o rest : areas \in [1..k -> PetalAreas],
                                               rest \in Layerings(n - k)} : k \in 1..n}

\* any set of cells of one row
OrderAreas == {Area_new(<<l>>, 0) : l \in AllLines(MaxCells - 1) \ {<<>>}}

\* one layer of two petals, each any set of cells of one row as wide as the
\* region algebra's inputs
WideLayers == {<<PetalsOf(<<Some(a), Some(b)>>)>> : a \in OrderAreas, b \in OrderAreas}

InputLayers == UNION {Layerings(n) : n \in 1..MaxShapes} \cup WideLayers

\* the empty record of what has been subtracted from each petal
NothingSubtracted(all_layers) ==
    [l \in 1..Len(all_layers) |-> [p \in 1..Len(all_layers[l]) |-> <<>>]]

InitLayers ==
    /\ pc = "layers"
    /\ input_layers \in InputLayers
    /\ layers = input_layers
    /\ orders = <<>>
    /\ layer_i = 0
    /\ layer_y = 0
    /\ petal_index = 0
    /\ overlapping_petals = <<>>
    /\ visible_area = None
    /\ subtracted = NothingSubtracted(input_layers)
    /\ front_areas = <<>>
    /\ out = None
    /\ NoGeometry
    /\ NoSampling

\* optimize_back_area alone: one back area and two occluders
InitOrder ==
    /\ pc = "fronts"
    /\ back \in OrderAreas
    /\ front_areas \in {<<Some(f1), Some(f2)>> : f1 \in OrderAreas, f2 \in OrderAreas}
    /\ front = NoArea
    /\ hit = FALSE
    /\ points = <<>>
    /\ skeleton = <<>>
    /\ row_anchors = <<>>
    /\ row_xs = <<>>
    /\ row = None
    /\ out = None
    /\ input_layers = <<>>
    /\ layers = <<>>
    /\ orders = <<>>
    /\ layer_i = 0
    /\ layer_y = 0
    /\ petal_index = 0
    /\ overlapping_petals = <<>>
    /\ visible_area = None
    /\ subtracted = <<>>
    /\ NoSampling

InitResolver == InitLayers \/ InitOrder

\* Area::intersects(back, front)
Intersects ==
    /\ pc = "areas"
    /\ hit' = Area_intersects(back, front)
    /\ pc' = "tested"
    /\ UNCHANGED <<back, front, points, skeleton, row_anchors, row_xs, row, out>>
    /\ UNCHANGED resolver
    /\ UNCHANGED sampling

\* cull(back, front)
Cull ==
    /\ pc = "tested"
    /\ out' = cull(back, front)
    /\ pc' = "culled"
    /\ UNCHANGED <<back, front, hit, points, skeleton, row_anchors, row_xs, row>>
    /\ UNCHANGED resolver
    /\ UNCHANGED sampling

\* back.optimize()
Optimize ==
    /\ pc = "areas"
    /\ out' = Area_optimize(back)
    /\ pc' = "optimized"
    /\ UNCHANGED <<back, front, hit, points, skeleton, row_anchors, row_xs, row>>
    /\ UNCHANGED resolver
    /\ UNCHANGED sampling

\* interpolate(points)
Interpolate ==
    /\ pc \in {"points", "far"}
    /\ skeleton' = interpolate(points)
    /\ pc' = IF pc = "points" THEN "skeleton" ELSE "line"
    /\ UNCHANGED <<back, front, hit, points, row_anchors, row_xs, row, out>>
    /\ UNCHANGED resolver
    /\ UNCHANGED sampling

\* find_inner_area(skeleton)
FindInnerArea ==
    /\ pc = "skeleton"
    /\ out' = find_inner_area(skeleton)
    /\ pc' = "extracted"
    /\ UNCHANGED <<back, front, hit, points, skeleton, row_anchors, row_xs, row>>
    /\ UNCHANGED resolver
    /\ UNCHANGED sampling

\* the ranges of one row, wrapped by Line::new
ExtractRow ==
    /\ pc = "row"
    /\ row' = LET ranges == RowRanges(row_anchors, row_xs)
              IN  IF RowOk(ranges) THEN Some(ranges) ELSE Panic
    /\ pc' = "rowed"
    /\ UNCHANGED <<back, front, hit, points, skeleton, row_anchors, row_xs, out>>
    /\ UNCHANGED resolver
    /\ UNCHANGED sampling

Next ==
    \/ Intersects
    \/ Cull
    \/ Optimize
    \/ Interpolate
    \/ FindInnerArea
    \/ ExtractRow

Spec == Init /\ [][Next]_vars

(***************************************************************************)
(* cull, one loop iteration at a time.  frame holds its local variables,   *)
(* the indices 0-based as in the code, and two counters: rows, the         *)
(* iterations of the row loop begun so far, and steps, the iterations of   *)
(* the range loop begun on the current row.                                *)
(***************************************************************************)
\* the locals on entry to the row loop
CullFrame(back_area, front_area) ==
    LET min_y == Min2(back_area.min_y, front_area.min_y)
        max_y == Max2(back_area.max_y, front_area.max_y)
    IN  [min_y |-> min_y,
         visible_lines |-> [i \in 1..((max_y - min_y) + 1) |-> <<>>],
         back_y |-> back_area.min_y,
         front_y |-> Max2(front_area.min_y, back_area.min_y),
         back_line_index |-> 0,
         front_line_index |-> 0,
         ranges |-> <<>>,
         rows |-> 0,
         steps |-> 0]

\* while back_y <= back_area.max_y() && front_y <= front_area.max_y()
InRowLoop(f, back_area, front_area) ==
    f.back_y <= back_area.max_y /\ f.front_y <= front_area.max_y

\* while back_line_index < back_line.len() && front_line_index < front_line.len()
InRangeLoop(f, back_line, front_line) ==
    f.back_line_index < Len(back_line) /\ f.front_line_index < Len(front_line)

\* one iteration of the row loop up to its next! or to the range loop;
\* inner tells whether the range loop is entered
RowStep(f, back_area, front_area) ==
    LET back_line == Area_line(back_area, f.back_y)
        front_line == Area_line(front_area, f.front_y)
        g == [f EXCEPT !.rows = @ + 1]
    IN  IF f.back_y = f.front_y
        THEN IF ~Line_intersects(back_line, front_line)
             THEN [inner |-> FALSE,
                   frame |-> [g EXCEPT !.visible_lines =
                                           SetVisible(@, f.min_y, f.back_y,
                                                      VisibleWhenDisjoint(back_line, front_line)),
                                       !.back_y = @ + 1]]
             ELSE [inner |-> TRUE,
                   frame |-> [g EXCEPT !.back_line_index = 0,
                                       !.front_line_index = 0,
                                       !.ranges = <<>>,
                                       !.steps = 0]]
        ELSE IF f.back_y > f.front_y
        THEN [inner |-> FALSE, frame |-> [g EXCEPT !.front_y = @ + 1]]
        ELSE [inner |-> FALSE,
              frame |-> [g EXCEPT !.visible_lines = SetVisible(@, f.min_y, f.back_y, back_line),
                                  !.back_y = @ + 1]]

SkipFront_stay(f) == f

\* "[...]___(...)": next!(front_line_index)
SkipFront(f) == [f EXCEPT !.front_line_index = @ + 1]

\* one iteration of the range loop
RangeStep(f, back_line, front_line) ==
    LET b == back_line[f.back_line_index + 1]
        fr == front_line[f.front_line_index + 1]
        g == [f EXCEPT !.steps = @ + 1]
    IN  IF b.to < fr.from
        THEN [g EXCEPT !.ranges = Append(@, b), !.back_line_index = @ + 1]
        ELSE IF fr.to < b.from
        THEN SkipFront(g)
        ELSE LET pre == IF b.from < fr.from
                        THEN Append(f.ranges, BeforeFront(b, fr))
                        ELSE f.ranges
             IN  IF fr.to < b.to
                 THEN [g EXCEPT !.ranges = Append(pre, AfterFront(b, fr)),
                                !.back_line_index = @ + 1,
                                !.front_line_index = @ + 1]
                 ELSE [g EXCEPT !.ranges = pre, !.back_line_index = @ + 1]

\* after the range loop: the rest of the back line, then Line::new
RowRangesDone(f, back_line) ==
    f.ranges \o Remaining(back_line, f.back_line_index + 1)

InitCull ==
    /\ pc = "cull"
    /\ back \in BackAreas
    /\ front \in FrontAreas
    /\ hit = FALSE
    /\ points = <<>>
    /\ skeleton = <<>>
    /\ row_anchors = <<>>
    /\ row_xs = <<>>
    /\ row = None
    /\ out = None
    /\ NoLayers
    /\ random = None
    /\ created_seed = 0
    /\ restored = None
    /\ restored_after = 0
    /\ restored_values = <<>>
    /\ polar = None
    /\ scaling = None
    /\ merging = None
    /\ frame = Some(CullFrame(back, front))
    /\ extent = None

\* the row loop is entered
CullEnter ==
    /\ pc = "cull"
    /\ pc' = "rows"
    /\ UNCHANGED <<out, frame>>
    /\ UNCHANGED geometry
    /\ UNCHANGED resolver
    /\ UNCHANGED <<random, created_seed, restored, restored_after, restored_values,
                   polar, scaling, merging, extent>>

\* an iteration of the row loop begins
CullRow ==
    /\ pc = "rows"
    /\ InRowLoop(frame.val, back, front)
    /\ LET step == RowStep(frame.val, back, front)
       IN  /\ frame' = Some(step.frame)
           /\ pc' = IF step.inner THEN "ranges" ELSE "rows"
    /\ UNCHANGED out
    /\ UNCHANGED geometry
    /\ UNCHANGED resolver
    /\ UNCHANGED <<random, created_seed, restored, restored_after, restored_values,
                   polar, scaling, merging, extent>>

\* an iteration of the range loop
CullRange ==
    /\ pc = "ranges"
    /\ InRangeLoop(frame.val, Area_line(back, frame.val.back_y),
                   Area_line(front, frame.val.front_y))
    /\ frame' = Some(RangeStep(frame.val, Area_line(back, frame.val.back_y),
                               Area_line(front, frame.val.front_y)))
    /\ UNCHANGED <<pc, out>>
    /\ UNCHANGED geometry
    /\ UNCHANGED resolver
    /\ UNCHANGED <<random, created_seed, restored, restored_after, restored_values,
                   polar, scaling, merging, extent>>

\* the range loop is left: set_visible(back_y, Line::new(ranges)) and
\* next!(back_y, front_y)
CullRowEnd ==
    /\ pc = "ranges"
    /\ ~InRangeLoop(frame.val, Area_line(back, frame.val.back_y),
                    Area_line(front, frame.val.front_y))
    /\ LET ranges == RowRangesDone(frame.val, Area_line(back, frame.val.back_y))
       IN  IF ~Line_new_ok(ranges)
           THEN /\ out' = Panic
                /\ pc' = "culled"
                /\ UNCHANGED frame
           ELSE /\ frame' = Some([frame.val EXCEPT
                                     !.visible_lines = SetVisible(@, frame.val.min_y,
                                                                  frame.val.back_y, ranges),
                                     !.ranges = ranges,
                                     !.back_y = @ + 1,
                                     !.front_y = @ + 1])
                /\ pc' = "rows"
                /\ UNCHANGED out
    /\ UNCHANGED geometry
    /\ UNCHANGED resolver
    /\ UNCHANGED <<random, created_seed, restored, restored_after, restored_values,
                   polar, scaling, merging, extent>>

\* the row loop is left: the remaining back rows, then
\* Area::new(visible_lines, min_y).optimize()
CullReturn ==
    /\ pc = "rows"
    /\ ~InRowLoop(frame.val, back, front)
    /\ out' = Area_optimize(Area_new(CopyRemaining(back, frame.val.min_y, frame.val.back_y,
                                                   frame.val.visible_lines),
                                     frame.val.min_y))
    /\ pc' = "culled"
    /\ UNCHANGED frame
    /\ UNCHANGED geometry
    /\ UNCHANGED resolver
    /\ UNCHANGED <<random, created_seed, restored, restored_after, restored_values,
                   polar, scaling, merging, extent>>

NextCull ==
    \/ CullEnter
    \/ CullRow
    \/ CullRange
    \/ CullRowEnd
    \/ CullReturn

SpecCull == InitCull /\ [][NextCull]_vars

\* the loops of cull are not interrupted: a step that can be taken is taken
SpecCullFair == SpecCull /\ WF_vars(NextCull)

(***************************************************************************)
(* The 16-bit signed computations of Area::new, Area::optimize,            *)
(* Line::coverage, find_inner_area and cull.  Each is kept with its exact  *)
(* value and with the value an i16 holds after wrapping; a debug build     *)
(* panics where the two differ.  extent gives the least and the greatest   *)
(* coordinate (lo, hi) and one between them (at); it stands for the rows   *)
(* of a skeleton or an Area and for the x-coordinates of a row.            *)
(***************************************************************************)
I16(n) == ((n + 98304) % 65536) - 32768

Computed(exact) == [exact |-> exact, kept |-> I16(exact)]

MAX_RADIUS_half == (I16Max \div 2) + 1

\* pub const MAX_RADIUS: u16 = (i16::MAX as u16 / 2) - 1
MAX_RADIUS == (I16Max \div 2) - 1

\* Area::new for the rows lo..hi: lines.len() as i16 - 1, added to min_y
Area_new_i16(lo, hi) ==
    LET len == Computed((hi - lo) + 1)
        last == Computed(len.kept - 1)
    IN  {len, last, Computed(lo + last.kept)}

\* Area::optimize of the rows lo..hi, at the first row that is not empty:
\* i16::try_from(start + min_y), then Area::new
Area_optimize_i16(lo, at, hi) ==
    {Computed((at - lo) + lo)} \cup Area_new_i16(at, hi)

\* Line::coverage: range.to_inclusive - range.from
Line_coverage_i16(lo, at, hi) ==
    {Computed(hi - lo), Computed(at - lo), Computed(hi - at)}

\* find_inner_area: max_y - min_y, the y_diff of two points, point.y - min_y,
\* min_y + i, and in push_range x2 - x1, x - actual_x1, actual_x2 - x,
\* actual_x1 + 1, actual_x2 - 1, y - min_y; then Area::new and optimize
find_inner_area_i16(lo, at, hi) ==
    {Computed(hi - lo), Computed(lo - hi), Computed(at - lo), Computed(hi - at),
     Computed(lo + I16(hi - lo)), Computed(at + 1), Computed(at - 1)}
        \cup Area_new_i16(lo, hi) \cup Area_optimize_i16(lo, at, hi)

\* cull: max_y - min_y, y - min_y, back_y += 1 and front_y += 1,
\* front.from() - 1, front.to_inclusive() + 1; then Area::new and optimize
cull_i16(lo, at, hi) ==
    {Computed(hi - lo), Computed(at - lo), Computed(hi + 1), Computed(at + 1),
     Computed(at - 1)}
        \cup Area_new_i16(lo, hi) \cup Area_optimize_i16(lo, at, hi)

\* the coordinates tried: the MaxEdge + 1 nearest to either end of
\* [-MAX_RADIUS, MAX_RADIUS], and 0
InitWidth ==
    /\ pc = "extent"
    /\ LET edge == {0} \cup {MAX_RADIUS - k : k \in 0..MaxEdge}
                       \cup {k - MAX_RADIUS : k \in 0..MaxEdge}
       IN  extent \in {Some([lo |-> lo, at |-> at, hi |-> hi]) :
                          lo \in edge, at \in edge, hi \in edge}
    /\ extent.val.lo <= extent.val.at
    /\ extent.val.at <= extent.val.hi
    /\ out = None
    /\ NoGeometry
    /\ NoLayers
    /\ random = None
    /\ created_seed = 0
    /\ restored = None
    /\ restored_after = 0
    /\ restored_values = <<>>
    /\ polar = None
    /\ scaling = None
    /\ merging = None
    /\ frame = None

AreaNewWidth ==
    /\ pc = "extent"
    /\ out' = Some(Area_new_i16(extent.val.lo, extent.val.hi))
    /\ pc' = "Area::new i16"
    /\ UNCHANGED geometry
    /\ UNCHANGED resolver
    /\ UNCHANGED sampling

AreaOptimizeWidth ==
    /\ pc = "extent"
    /\ out' = Some(Area_optimize_i16(extent.val.lo, extent.val.at, extent.val.hi))
    /\ pc' = "Area::optimize i16"
    /\ UNCHANGED geometry
    /\ UNCHANGED resolver
    /\ UNCHANGED sampling

LineCoverageWidth ==
    /\ pc = "extent"
    /\ out' = Some(Line_coverage_i16(extent.val.lo, extent.val.at, extent.val.hi))
    /\ pc' = "Line::coverage i16"
    /\ UNCHANGED geometry
    /\ UNCHANGED resolver
    /\ UNCHANGED sampling

FindInnerAreaWidth ==
    /\ pc = "extent"
    /\ out' = Some(find_inner_area_i16(extent.val.lo, extent.val.at, extent.val.hi))
    /\ pc' = "find_inner_area i16"
    /\ UNCHANGED geometry
    /\ UNCHANGED resolver
    /\ UNCHANGED sampling

CullWidth ==
    /\ pc = "extent"
    /\ out' = Some(cull_i16(extent.val.lo, extent.val.at, extent.val.hi))
    /\ pc' = "cull i16"
    /\ UNCHANGED geometry
    /\ UNCHANGED resolver
    /\ UNCHANGED sampling

NextWidth ==
    \/ AreaNewWidth
    \/ AreaOptimizeWidth
    \/ LineCoverageWidth
    \/ FindInnerAreaWidth
    \/ CullWidth

SpecWidth == InitWidth /\ [][NextWidth]_vars

\* closed skeletons: every walk of king moves in the window that returns to
\* its first point after at most MaxWalk steps
RECURSIVE WalksTo(_, _, _)
WalksTo(p, target, n) ==
    LET steps == {q \in Window : q # p /\ q.x - p.x \in -1..1 /\ q.y - p.y \in -1..1}
        apart(q) == Max2(Abs(q.x - target.x), Abs(q.y - target.y))
    IN  IF n = 0 THEN {<<p>>}
        ELSE {<<p>> \o rest :
                rest \in UNION {WalksTo(q, target, n - 1) :
                                    q \in {s \in steps : apart(s) <= n - 1}}}

InitClosed ==
    /\ pc = "skeleton"
    /\ skeleton \in UNION {WalksTo(p, p, n) : p \in Window, n \in 0..MaxWalk}
    /\ points = <<>>
    /\ back = NoArea
    /\ front = NoArea
    /\ hit = FALSE
    /\ row_anchors = <<>>
    /\ row_xs = <<>>
    /\ row = None
    /\ out = None
    /\ NoLayers
    /\ NoSampling

NextClosed == FindInnerArea

SpecClosed == InitClosed /\ [][NextClosed]_vars

\* order.shuffle(random): any permutation of 0..n-1
Perms(n) ==
    {o \in [1..n -> 0..(n - 1)] : \A a \in 1..n : \A b \in 1..n : o[a] = o[b] => a = b}

RECURSIVE OrdersFrom(_)
OrdersFrom(all_layers) ==
    IF Len(all_layers) = 0 THEN {<<>>}
    ELSE {<<order>> \o rest : order \in Perms(Len(Head(all_layers))),
                              rest \in OrdersFrom(Tail(all_layers))}

\* the orders are drawn, the loops start at the first petal
Shuffle ==
    /\ pc = "layers"
    /\ orders' \in OrdersFrom(layers)
    /\ layer_i' = 1
    /\ layer_y' = 1
    /\ petal_index' = 1
    /\ pc' = "petal"
    /\ UNCHANGED <<front_areas, input_layers, layers, overlapping_petals,
                   visible_area, subtracted, out>>
    /\ UNCHANGED geometry
    /\ UNCHANGED sampling

\* the occluders of layers[i][petal_index] in layers[y] are found
BeginPetal ==
    /\ pc = "petal"
    /\ overlapping_petals' =
           OverlappingPetals(layers, orders, layer_i, layer_y, petal_index)
    /\ visible_area' = layers[layer_i][petal_index].area
    /\ pc' = "culling"
    /\ UNCHANGED <<front_areas, input_layers, layers, orders, layer_i, layer_y,
                   petal_index, subtracted, out>>
    /\ UNCHANGED geometry
    /\ UNCHANGED sampling

\* one pass of the loop of optimize_back_area: the next occluder is subtracted
CullFront ==
    /\ pc = "culling"
    /\ Len(overlapping_petals) > 0
    /\ LET other_petal_index == Head(overlapping_petals)
       IN  /\ visible_area' =
                  VisibleAfter(visible_area, layers[layer_y][other_petal_index].area)
           /\ subtracted' =
                  [subtracted EXCEPT ![layer_i][petal_index] =
                       Append(@, <<layer_y, other_petal_index>>)]
    /\ overlapping_petals' = Tail(overlapping_petals)
    /\ UNCHANGED <<pc, front_areas, input_layers, layers, orders, layer_i, layer_y,
                   petal_index, out>>
    /\ UNCHANGED geometry
    /\ UNCHANGED sampling

\* petal.area = optimized_area, then the next petal, the next y, the next i
EndPetal ==
    /\ pc = "culling"
    /\ Len(overlapping_petals) = 0
    /\ layers' = [layers EXCEPT ![layer_i][petal_index].area = visible_area]
    /\ IF petal_index < Len(layers[layer_i])
       THEN /\ petal_index' = petal_index + 1
            /\ UNCHANGED <<layer_i, layer_y>>
            /\ pc' = "petal"
       ELSE IF layer_y < Len(layers)
       THEN /\ petal_index' = 1
            /\ layer_y' = layer_y + 1
            /\ UNCHANGED layer_i
            /\ pc' = "petal"
       ELSE IF layer_i < Len(layers)
       THEN /\ petal_index' = 1
            /\ layer_i' = layer_i + 1
            /\ layer_y' = layer_i + 1
            /\ pc' = "petal"
       ELSE /\ UNCHANGED <<layer_i, layer_y, petal_index>>
            /\ pc' = "resolved"
    /\ UNCHANGED <<front_areas, input_layers, orders, overlapping_petals,
                   visible_area, subtracted, out>>
    /\ UNCHANGED geometry
    /\ UNCHANGED sampling

\* the petals of all layers, first layer first
RECURSIVE Flatten(_)
Flatten(all_layers) ==
    IF Len(all_layers) = 0 THEN <<>>
    ELSE Head(all_layers) \o Flatten(Tail(all_layers))

\* the points colorize gives a colour to: every point of every range
Pixels(area) ==
    UNION {UNION {{Point(x, area.min_y + i - 1) :
                      x \in area.lines[i][r].from .. area.lines[i][r].to} :
                  r \in 1..Len(area.lines[i])} : i \in 1..Len(area.lines)}

\* colorize: nothing for an empty area, else the pixels of the area
colorize(area) == IF IsSome(area) THEN Some(Pixels(area.val)) ELSE None

\* draw_layers: the drawings of all petals, or nothing as soon as colorize
\* gives nothing for one of them
draw_layers(all_layers) ==
    LET petals == Flatten(all_layers)
    IN  IF \E k \in 1..Len(petals) : ~IsSome(colorize(petals[k].area))
        THEN None
        ELSE Some([k \in 1..Len(petals) |->
                      [skeleton |-> petals[k].skeleton,
                       pixels |-> colorize(petals[k].area).val]])

\* random_flower after the resolver: draw_layers(layers, ..)?
DrawLayers ==
    /\ pc = "resolved"
    /\ out' = draw_layers(layers)
    /\ pc' = "drawn"
    /\ UNCHANGED geometry
    /\ UNCHANGED resolver
    /\ UNCHANGED sampling

\* optimize_back_area(back, front_areas)
OptimizeBackArea ==
    /\ pc = "fronts"
    /\ out' = optimize_back_area(Some(back), front_areas)
    /\ pc' = "ordered"
    /\ UNCHANGED geometry
    /\ UNCHANGED resolver
    /\ UNCHANGED sampling

NextLayers ==
    \/ Shuffle
    \/ BeginPetal
    \/ CullFront
    \/ EndPetal
    \/ DrawLayers
    \/ OptimizeBackArea

SpecLayers == InitResolver /\ [][NextLayers]_vars

(***************************************************************************)
(* The random source, RestorableRng (src/src/rand.rs).  The delegate is a  *)
(* ChaCha8Rng of the rand_chacha crate: a key fixed by the seed and a      *)
(* position in the key's stream of words.  The stream is a fixed mixing    *)
(* function here, of WordBits bits, not the ChaCha block function.         *)
(***************************************************************************)
Mix(v) == ((v * 75) + 74) % Pow2(WordBits)

\* ChaCha8Rng::seed_from_u64(seed)
ChaCha8Rng_seed_from_u64(seed) == [key |-> Mix(Mix(seed)), word_pos |-> 0]

\* the word of the key's stream at word_pos
StreamWord(delegate) == Mix((delegate.key * (delegate.word_pos + 1)) + delegate.word_pos)

\* RestorableRng::new(seed)
RestorableRng_new(seed) == [delegate |-> ChaCha8Rng_seed_from_u64(seed), seed |-> seed]

\* next_u32: the word at the position, the generator one word further
next_u32(self) ==
    [value |-> StreamWord(self.delegate),
     self |-> [self EXCEPT !.delegate.word_pos = @ + 1]]

\* next_u64: two words, the first one the low half
next_u64(self) ==
    LET low == next_u32(self)
        high == next_u32(low.self)
    IN  [value |-> <<low.value, high.value>>, self |-> high.self]

restore_as_clone(self) == [returned |-> self, self |-> self]

\* restore(&self): a new generator from the stored seed; self as it was
restore(self) == [returned |-> RestorableRng_new(self.seed), self |-> self]

\* the first n words of a generator
RECURSIVE Words(_, _)
Words(rng, n) ==
    IF n = 0 THEN <<>>
    ELSE LET drawn == next_u32(rng) IN <<drawn.value>> \o Words(drawn.self, n - 1)

InitRng ==
    /\ pc = "rng"
    /\ created_seed \in 0..MaxSeed
    /\ random = Some(RestorableRng_new(created_seed))
    /\ restored = None
    /\ restored_after = 0
    /\ restored_values = <<>>
    /\ polar = None
    /\ scaling = None
    /\ merging = None
    /\ frame = None
    /\ extent = None
    /\ out = None
    /\ NoGeometry
    /\ NoLayers

\* random.next_u32()
NextU32 ==
    /\ pc = "rng"
    /\ random.val.delegate.word_pos < MaxDraws
    /\ LET drawn == next_u32(random.val)
       IN  /\ random' = Some(drawn.self)
           /\ out' = Some(drawn.value)
    /\ UNCHANGED <<pc, created_seed, restored, restored_after, restored_values, polar, scaling, merging, frame, extent>>
    /\ UNCHANGED geometry
    /\ UNCHANGED resolver

\* random.next_u64()
NextU64 ==
    /\ pc = "rng"
    /\ random.val.delegate.word_pos + 1 < MaxDraws
    /\ LET drawn == next_u64(random.val)
       IN  /\ random' = Some(drawn.self)
           /\ out' = Some(drawn.value)
    /\ UNCHANGED <<pc, created_seed, restored, restored_after, restored_values, polar, scaling, merging, frame, extent>>
    /\ UNCHANGED geometry
    /\ UNCHANGED resolver

\* restored = random.restore()
Restore ==
    /\ pc = "rng"
    /\ LET result == restore(random.val)
       IN  /\ restored' = Some(result.returned)
           /\ random' = Some(result.self)
    /\ restored_after' = random.val.delegate.word_pos
    /\ restored_values' = <<>>
    /\ UNCHANGED <<pc, created_seed, polar, scaling, merging, frame, extent, out>>
    /\ UNCHANGED geometry
    /\ UNCHANGED resolver

\* restored.next_u32()
RestoredNextU32 ==
    /\ pc = "rng"
    /\ IsSome(restored)
    /\ Len(restored_values) < MaxDraws
    /\ LET drawn == next_u32(restored.val)
       IN  /\ restored' = Some(drawn.self)
           /\ restored_values' = Append(restored_values, drawn.value)
    /\ UNCHANGED <<pc, created_seed, random, restored_after, polar, scaling, merging, frame, extent, out>>
    /\ UNCHANGED geometry
    /\ UNCHANGED resolver

NextRng ==
    \/ NextU32
    \/ NextU64
    \/ Restore
    \/ RestoredNextU32

SpecRng == InitRng /\ [][NextRng]_vars

(***************************************************************************)
(* The polar evaluator, eval_polar (src/src/math/curve.rs).  A            *)
(* non-negative f32 is a record [man, exp] of value man * 2^(-exp), with   *)
(* 2^23 <= man < 2^24, or man = 0 for 0.0.  The length of the curve and    *)
(* the sampled angles are computed in f32 as the code computes them; sin,  *)
(* cos and tan of libm are approximated on thousandths of a radian, and a  *)
(* coordinate is a number of thousandths.  Of a curve the first MaxKept    *)
(* points and the last point are kept.                                     *)
(***************************************************************************)
F32(man, exp) == [man |-> man, exp |-> exp]

F32Zero == F32(0, 0)

\* a mantissa that rounding has carried to 2^24 is brought back to 24 bits
F32Normal(v) == IF v.man = Pow2(24) THEN F32(Pow2(23), v.exp - 1) ELSE v

\* a / b in f32, for a >= 0 and b > 0
F32Div(a, b) ==
    IF a.man = 0 THEN F32Zero
    ELSE LET q == F32Quotient(a.man, b.man)
         IN  F32Normal(F32(q.man, (q.exp + a.exp) - b.exp))

\* i as f32, for 0 <= i < 2^31: ties to even when i has more than 24 bits
F32OfInt(i) ==
    IF i = 0 THEN F32Zero
    ELSE LET len == BitLen(i)
         IN  IF len <= 24 THEN F32(i * Pow2(24 - len), 24 - len)
             ELSE LET drop == len - 24
                      keep == i \div Pow2(drop)
                      rest == i % Pow2(drop)
                      half == Pow2(drop - 1)
                      up == (rest > half) \/ (rest = half /\ keep % 2 = 1)
                  IN  F32Normal(F32(IF up THEN keep + 1 ELSE keep, -drop))

\* a * b in f32; the exact product of the mantissas is hi * 2^24 + lo
F32Mul(a, b) ==
    IF a.man = 0 \/ b.man = 0 THEN F32Zero
    ELSE LET a1 == a.man \div 4096
             a0 == a.man % 4096
             b1 == b.man \div 4096
             b0 == b.man % 4096
             mid == (a1 * b0) + (a0 * b1)
             low == (a0 * b0) + ((mid % 4096) * 4096)
             lo == low % Pow2(24)
             hi == (a1 * b1) + (mid \div 4096) + (low \div Pow2(24))
             drop == BitLen(hi)
             keep == (hi * Pow2(24 - drop)) + (lo \div Pow2(drop))
             rest == lo % Pow2(drop)
             half == Pow2(drop - 1)
             up == (rest > half) \/ (rest = half /\ keep % 2 = 1)
         IN  F32Normal(F32(IF up THEN keep + 1 ELSE keep, (a.exp + b.exp) - drop))

\* a < b on f32
F32Less(a, b) ==
    IF b.man = 0 THEN FALSE
    ELSE IF a.man = 0 THEN TRUE
    ELSE a.exp > b.exp \/ (a.exp = b.exp /\ a.man < b.man)

\* float as f64 > usize::MAX as f64, that is float > 2^64
ExceedsUsize(float) ==
    float.exp <= -42 \/ (float.exp = -41 /\ float.man > Pow2(23))

\* float as usize, for a float below 2^31
F32Trunc(float) ==
    IF float.exp > 24 THEN 0
    ELSE IF float.exp >= 0 THEN float.man \div Pow2(float.exp)
    ELSE float.man * Pow2(-float.exp)

\* an angle in thousandths of a radian
Milli(v) ==
    IF v.exp > 36 THEN 0
    ELSE IF v.exp >= 13 THEN (((v.man \div Pow2(v.exp - 13)) * 1000) + 4096) \div 8192
    ELSE v.man * Pow2(-v.exp) * 1000

HalfTurn == 3142

\* a number of thousandths divided by 1000, to the nearest
Thousandth(v) == IF v >= 0 THEN (v + 500) \div 1000 ELSE -((500 - v) \div 1000)

\* 1000 * sin of an angle of 0 .. HalfTurn thousandths (Bhaskara's formula)
SinHalfTurn(a) ==
    LET p == a * (HalfTurn - a)
        d == ((5 * HalfTurn * HalfTurn) - (4 * p)) \div 1000
    IN  ((16 * p) + (d \div 2)) \div d

\* 1000 * sin, 1000 * cos and 1000 * tan of an angle in thousandths
Sin1000(a) ==
    LET r == a % (2 * HalfTurn)
    IN  IF r <= HalfTurn THEN SinHalfTurn(r) ELSE -SinHalfTurn(r - HalfTurn)

Cos1000(a) == Sin1000(a + (HalfTurn \div 2))

Tan1000(a) == Thousandth((Sin1000(a) * 1000 * 1000) \div Cos1000(a))

\* f32::asin(1.0) = 0x3fc90fdb and f32::atan(1.0) = 0x3f490fdb
arc_trig_func(func) == IF func = "sin" THEN F32(13176795, 23) ELSE F32(13176795, 24)

\* f32::sin or f32::tan, in thousandths
trig_func(func, v) == IF func = "sin" THEN Sin1000(Milli(v)) ELSE Tan1000(Milli(v))

\* (arc_trig_func(1.0) / k) / step
PolarFloat(k, step, func) == F32Div(F32Div(arc_trig_func(func), k), step)

\* let theta = i as f32 * step
SampleTheta(i, step) == F32Mul(F32OfInt(i), step)

\* the radius trig_func(theta * k) of sample i
SampleRadius(i, k, step, func) == trig_func(func, F32Mul(SampleTheta(i, step), k))

\* curve.last().to_angle(): the angle of the last sample, 0 at the origin
LastPointAngle(length, k, step, func) ==
    IF SampleRadius(length - 1, k, step, func) = 0 THEN 0
    ELSE Milli(SampleTheta(length - 1, step))

Mirrored_x(point) == Point(-point.x, point.y)

\* if mirror { point.y = -point.y }
Mirrored(point) == Point(point.x, -point.y)

\* sample i: to_cartesian, then the rotation by angle - last_point_angle,
\* then the mirror
PolarPoint(i, length, k, step, angle, mirror, func) ==
    LET radius == SampleRadius(i, k, step, func)
        turned == (Milli(SampleTheta(i, step)) + Milli(angle))
                      - LastPointAngle(length, k, step, func)
        point == Point(Thousandth(radius * Cos1000(turned)),
                       Thousandth(radius * Sin1000(turned)))
    IN  IF mirror THEN Mirrored(point) ELSE point

\* the indices of the points that are kept
Kept(length) ==
    IF length = 0 THEN {}
    ELSE (0..(Min2(length, MaxKept) - 1)) \cup {length - 1}

Curve(length, k, step, angle, mirror, func) ==
    [length |-> length,
     points |-> [i \in Kept(length) |->
                    PolarPoint(i, length, k, step, angle, mirror, func)]]

\* float as usize
PolarLength(float) == F32Trunc(float)

eval_polar(k, step, angle, mirror, func) ==
    IF ~(k.man > 0) \/ ~(step.man > 0) THEN Panic
    ELSE LET float == PolarFloat(k, step, func)
         IN  IF ExceedsUsize(float) THEN Panic
             ELSE Some(Curve(PolarLength(float), k, step, angle, mirror, func))

\* the arguments: k = 1.0, 2.0, 3.0; step = 0.01, 0.125, 0.3, 2.0, the
\* f32 0x337fee11 (about 5.96e-8) and 2^-70; angle = 0.0, 1.0
PolarKs == {F32(8388608, 23), F32(8388608, 22), F32(12582912, 22)}

PolarSteps ==
    {F32(10737418, 30), F32(8388608, 26), F32(10066330, 25), F32(8388608, 22),
     F32(16772625, 48), F32(8388608, 93)}

PolarAngles == {F32Zero, F32(8388608, 23)}

InitPolar ==
    /\ pc = "polar"
    /\ polar \in {Some([k |-> kk, step |-> st, angle |-> an, mirror |-> mi, func |-> fn]) :
                     kk \in PolarKs, st \in PolarSteps, an \in PolarAngles,
                     mi \in BOOLEAN, fn \in {"sin", "tan"}}
    /\ random = None
    /\ created_seed = 0
    /\ restored = None
    /\ restored_after = 0
    /\ restored_values = <<>>
    /\ scaling = None
    /\ merging = None
    /\ frame = None
    /\ extent = None
    /\ out = None
    /\ NoGeometry
    /\ NoLayers

\* eval_polar_sin / eval_polar_tan (k, step, angle, mirror)
EvalPolar ==
    /\ pc = "polar"
    /\ out' = eval_polar(polar.val.k, polar.val.step, polar.val.angle,
                         polar.val.mirror, polar.val.func)
    /\ pc' = "curve"
    /\ UNCHANGED geometry
    /\ UNCHANGED resolver
    /\ UNCHANGED sampling

NextPolar == EvalPolar

SpecPolar == InitPolar /\ [][NextPolar]_vars

(***************************************************************************)
(* scale and merge (src/src/math/curve.rs).  A Vec2 coordinate is a sign   *)
(* and an f32 magnitude; the product with the factor and the rounding are  *)
(* those of f32, the cast to i16 is the saturating cast of `as`.           *)
(***************************************************************************)
\* u16::MAX, the largest factor
U16Max == 65535

\* f as i16 for an integral f: saturates at the ends of the range
as_i16(n) ==
    IF n > I16Max THEN I16Max
    ELSE IF n < I16Min THEN I16Min
    ELSE n

\* one coordinate of (point * factor as f32).round().as_i16vec2()
ScaleCoord(c, factor) ==
    LET rounded == F32Round(F32Mul(c.mag, F32OfInt(factor)))
    IN  as_i16(IF c.neg THEN -rounded ELSE rounded)

\* the closure scale
ScalePoint(point, factor) ==
    Point(ScaleCoord(point.x, factor), ScaleCoord(point.y, factor))

PushScaled_every(scaled_curve, scaled_point) == scaled_curve \o <<scaled_point>>

\* if *scaled_curve.last().unwrap() != scaled_point { push }
PushScaled(scaled_curve, scaled_point) ==
    IF scaled_curve[Len(scaled_curve)] # scaled_point
    THEN scaled_curve \o <<scaled_point>>
    ELSE scaled_curve

\* for point in curve.iter().skip(1)
RECURSIVE ScaleRest(_, _, _, _)
ScaleRest(scaled_curve, curve, i, factor) ==
    IF i > Len(curve) THEN scaled_curve
    ELSE ScaleRest(PushScaled(scaled_curve, ScalePoint(curve[i], factor)),
                   curve, i + 1, factor)

scale(curve, factor) ==
    IF curve = <<>> THEN Some(<<>>)
    ELSE IF ~(factor >= 1) THEN Panic
    ELSE Some(ScaleRest(<<ScalePoint(curve[1], factor)>>, curve, 2, factor))

\* MergeMode
ZigZagMode == [kind |-> "ZigZag"]
OriginMode(origin) == [kind |-> "Origin", origin |-> origin]

ZigZagIterator_basic(curve, head) == curve

\* DynIterator::Basic(curve.iter()) or DynIterator::Reverse(curve.iter().rev())
ZigZagIterator(curve, head) ==
    IF head THEN curve
    ELSE [i \in 1..Len(curve) |-> curve[(Len(curve) + 1) - i]]

\* MergeMode::ZigZag: head = !head after every curve
RECURSIVE MergeZigZag(_, _, _)
MergeZigZag(curves, i, head) ==
    IF i > Len(curves) THEN <<>>
    ELSE ZigZagIterator(curves[i], head) \o MergeZigZag(curves, i + 1, ~head)

OriginAfter_last(curves, i, origin) == IF i = Len(curves) THEN <<origin>> ELSE <<>>

\* merged.push(origin) after the points of curves[i]
OriginAfter(curves, i, origin) == <<origin>>

\* MergeMode::Origin(origin)
RECURSIVE MergeOrigin(_, _, _)
MergeOrigin(curves, i, origin) ==
    IF i > Len(curves) THEN <<>>
    ELSE curves[i] \o OriginAfter(curves, i, origin) \o MergeOrigin(curves, i + 1, origin)

merge(curves, mode) ==
    IF curves = <<>> THEN <<>>
    ELSE IF mode.kind = "ZigZag" THEN MergeZigZag(curves, 1, TRUE)
    ELSE MergeOrigin(curves, 1, mode.origin)

\* the curves handed to scale have at most MaxCurve points (x, 0) or (x, -x),
\* x a multiple of 1/2 up to MaxHalves / 2 of either sign; the factors are
\* the small ones and the largest a u16 holds
InitScale ==
    /\ pc = "scale"
    /\ LET zero == [neg |-> FALSE, mag |-> F32Zero]
           halves == {zero} \cup
                     {[neg |-> neg, mag |-> F32(F32OfInt(n).man, F32OfInt(n).exp + 1)] :
                         neg \in BOOLEAN, n \in 1..MaxHalves}
           negated(c) == IF c.mag = F32Zero THEN c ELSE [neg |-> ~c.neg, mag |-> c.mag]
           real_points == {Point(x, zero) : x \in halves}
                              \cup {Point(x, negated(x)) : x \in halves}
           real_curves == UNION {[1..n -> real_points] : n \in 0..MaxCurve}
           factors == (0..MaxFactor) \cup {U16Max}
       IN  scaling \in {Some([curve |-> c, factor |-> f]) : c \in real_curves, f \in factors}
    /\ merging = None
    /\ frame = None
    /\ extent = None
    /\ random = None
    /\ created_seed = 0
    /\ restored = None
    /\ restored_after = 0
    /\ restored_values = <<>>
    /\ polar = None
    /\ out = None
    /\ NoGeometry
    /\ NoLayers

\* MergeMode::ZigZag, and MergeMode::Origin(I16Vec2::ZERO) of random_mosaic
MergeModes == {ZigZagMode, OriginMode(Point(0, 0))}

\* the fragments handed to merge: at most MaxFragments curves of at most
\* MaxFragLen grid points (x, 0), x up to MaxFragX
InitMerge ==
    /\ pc = "merge"
    /\ LET fragment_points == {Point(x, 0) : x \in 0..MaxFragX}
           fragments == UNION {[1..n -> fragment_points] : n \in 0..MaxFragLen}
           fragment_lists == UNION {[1..n -> fragments] : n \in 0..MaxFragments}
       IN  merging \in {Some([curves |-> cs, mode |-> m]) :
                           cs \in fragment_lists, m \in MergeModes}
    /\ scaling = None
    /\ frame = None
    /\ extent = None
    /\ random = None
    /\ created_seed = 0
    /\ restored = None
    /\ restored_after = 0
    /\ restored_values = <<>>
    /\ polar = None
    /\ out = None
    /\ NoGeometry
    /\ NoLayers

InitCurve == InitScale \/ InitMerge

\* scale(curve, factor)
Scale ==
    /\ pc = "scale"
    /\ out' = scale(scaling.val.curve, scaling.val.factor)
    /\ pc' = "scaled"
    /\ UNCHANGED geometry
    /\ UNCHANGED resolver
    /\ UNCHANGED sampling

\* merge(curves, mode)
Merge ==
    /\ pc = "merge"
    /\ out' = Some(merge(merging.val.curves, merging.val.mode))
    /\ pc' = "merged"
    /\ UNCHANGED geometry
    /\ UNCHANGED resolver
    /\ UNCHANGED sampling

NextCurve ==
    \/ Scale
    \/ Merge

SpecCurve == InitCurve /\ [][NextCurve]_vars

(***************************************************************************)
(* Reference notions the properties are stated with: the covered cells of  *)
(* an Area as a set, independent of how the code walks the ranges.         *)
(***************************************************************************)
ColsOf(line) == UNION {line[i].from .. line[i].to : i \in 1..Len(line)}

CellsOf(area) ==
    UNION {{<<x, y>> : x \in ColsOf(Area_line(area, y))} : y \in area.min_y..area.max_y}

CellsOfOpt(o) == IF IsSome(o) THEN CellsOf(o.val) ELSE {}

CoverageOpt(o) == IF IsSome(o) THEN Area_coverage(o.val) ELSE 0

Returned(o) == o.tag \in {"None", "Some"}

SetMin(S) == CHOOSE m \in S : \A x \in S : m <= x
SetMax(S) == CHOOSE m \in S : \A x \in S : m >= x

SharedRows(a, b) == (a.min_y..a.max_y) \cap (b.min_y..b.max_y)

AllEmpty(area) == \A i \in 1..Len(area.lines) : Len(area.lines[i]) = 0

IsTrimmed(area) ==
    /\ Len(area.lines) = (area.max_y - area.min_y) + 1
    /\ Len(area.lines) >= 1
    /\ Len(area.lines[1]) > 0
    /\ Len(area.lines[Len(area.lines)]) > 0

\* sorted ascending, no overlap and no touching
LineInvariant(line) ==
    /\ \A i \in 1..Len(line) : line[i].from <= line[i].to
    /\ \A i \in 1..(Len(line) - 1) : line[i].to < line[i+1].from - 1

\* front covers every column between back's first and last covered column
\* on each row the two Areas share
FrontContainsSharedRows(b, f) ==
    \A y \in SharedRows(b, f) :
        LET cols == ColsOf(Area_line(b, y))
        IN  cols # {} =>
                \A x \in SetMin(cols)..SetMax(cols) : x \in ColsOf(Area_line(f, y))

NoRowOutside(b, f) ==
    \A y \in b.min_y..b.max_y :
        ColsOf(Area_line(b, y)) # {} => y \in f.min_y..f.max_y

IsRect(area) ==
    /\ Len(area.lines[1]) = 1
    /\ \A i \in 1..Len(area.lines) : area.lines[i] = area.lines[1]

Shifted(area, d) == Area_new(area.lines, area.min_y + d)

(***************************************************************************)
(* Properties of the region algebra.                                       *)
(***************************************************************************)
\* C1: cull(back, front) covers exactly the cells that back covers and
\* front does not, also when one back range overlaps several front ranges.
C1_CullIsSetDifference ==
    pc = "culled" =>
        /\ Returned(out)
        /\ CellsOfOpt(out) = CellsOf(back) \ CellsOf(front)

\* C2: coverage(cull(back, front)) <= coverage(back), None counting as 0.
C2_CoverageMonotone ==
    pc = "culled" =>
        /\ Returned(out)
        /\ CoverageOpt(out) <= Area_coverage(back)

C2_Witness ==
    /\ pc = "culled"
    /\ IsSome(out)
    /\ Area_coverage(out.val) < Area_coverage(back)
    /\ Len(back.lines) = 2 /\ front.min_y = 1

\* C3 as claimed: coverage(cull(back, front)) = coverage(back) if and only
\* if intersects(back, front) is false.
C3_EqualIffNotIntersects ==
    pc = "culled" =>
        ((CoverageOpt(out) = Area_coverage(back)) <=> ~hit)

\* C3 as amended: if intersects(back, front) is false then
\* coverage(cull(back, front)) = coverage(back).
C3_NotIntersectsKeepsCoverage ==
    pc = "culled" =>
        (~hit => Returned(out) /\ CoverageOpt(out) = Area_coverage(back))

C3_Witness ==
    /\ pc = "culled"
    /\ ~hit
    /\ SharedRows(back, front) # {}
    /\ ~AllEmpty(front)
    /\ IsSome(out) /\ Area_coverage(out.val) = Area_coverage(back)

\* C4 as claimed: if front contains back's x-extent on every row the two
\* Areas share, cull(back, front) is None.
C4_FullOcclusionOnSharedRows ==
    pc = "culled" =>
        (FrontContainsSharedRows(back, front) => out = None)

\* C4 as amended: if front contains back's x-extent on every row the two
\* Areas share and back has no non-empty row outside front's y-span,
\* cull(back, front) is None.
C4_FullOcclusion ==
    pc = "culled" =>
        (FrontContainsSharedRows(back, front) /\ NoRowOutside(back, front)
            => out = None)

C4_Witness ==
    /\ pc = "culled"
    /\ FrontContainsSharedRows(back, front) /\ NoRowOutside(back, front)
    /\ Area_coverage(back) >= 2
    /\ Len(back.lines) = 2 /\ IsTrimmed(back)
    /\ out = None

\* C5: culling a trimmed Area by an Area whose Lines are all empty returns
\* an Area with the same min_y, max_y and ranges on every row.
C5_EmptyOccluderIdentity ==
    pc = "culled" =>
        (IsTrimmed(back) /\ AllEmpty(front) => out = Some(back))

C5_Witness ==
    /\ pc = "culled"
    /\ IsTrimmed(back) /\ AllEmpty(front)
    /\ front.min_y < back.min_y /\ Len(front.lines) = 2
    /\ Len(back.lines) = 2
    /\ out = Some(back)

\* C6: for a rectangle at least two rows tall and the same rectangle shifted
\* by one row, intersects is true and cull leaves exactly the one row of
\* lower that upper does not share, with its original range.
C6_ShiftedRectangle ==
    pc = "culled" =>
        \A d \in {-1, 1} :
            (IsRect(back) /\ Len(back.lines) >= 2 /\ front = Shifted(back, d))
                => /\ hit
                   /\ out = Some(Area_new(<<back.lines[1]>>,
                                          IF d = 1 THEN back.min_y ELSE back.max_y))

C6_Witness ==
    /\ pc = "culled"
    /\ IsRect(back) /\ Len(back.lines) >= 2 /\ front = Shifted(back, -1)
    /\ hit
    /\ IsSome(out) /\ out.val.min_y = back.max_y /\ Len(out.val.lines) = 1

\* C7: Area::intersects is true iff the y-spans overlap and on some shared
\* row both Lines are non-empty and their bounding x-extents overlap.
C7_IntersectsIsBoundingOverlap ==
    pc = "tested" =>
        (hit <=>
            /\ back.min_y <= front.max_y /\ front.min_y <= back.max_y
            /\ \E y \in SharedRows(back, front) :
                LET a == ColsOf(Area_line(back, y))
                    b == ColsOf(Area_line(front, y))
                IN  /\ a # {} /\ b # {}
                    /\ SetMax(a) >= SetMin(b)
                    /\ SetMax(b) >= SetMin(a))

C7_Witness ==
    /\ pc = "tested"
    /\ hit
    /\ CellsOf(back) \cap CellsOf(front) = {}
    /\ \E y \in SharedRows(back, front) :
            Len(Area_line(back, y)) = 1 /\ Len(Area_line(front, y)) = 2

(***************************************************************************)
(* Invariants of the Areas the engine returns.                             *)
(***************************************************************************)
AllLinesOk(area) == \A i \in 1..Len(area.lines) : LineInvariant(area.lines[i])

\* C8: in every Area returned by find_inner_area, and by cull on inputs
\* that satisfy the Line invariant, the ranges of each Line are sorted
\* ascending and consecutive ranges neither overlap nor touch.
C8_LineInvariant ==
    /\ pc \in {"culled", "extracted"} =>
            /\ Returned(out)
            /\ IsSome(out) => AllLinesOk(out.val)
    /\ pc = "culled" => AllLinesOk(back) /\ AllLinesOk(front)
    /\ pc = "rowed" => IsSome(row) /\ LineInvariant(row.val)

C8_Witness ==
    /\ pc = "rowed"
    /\ IsSome(row)
    /\ Len(row.val) >= 2
    /\ Len(row_anchors) = 5

\* C9: every Area returned by find_inner_area, cull or Area::optimize is
\* trimmed: first and last Line non-empty, lines.len() = max_y - min_y + 1.
C9_Trimmed ==
    pc \in {"culled", "extracted", "optimized"} =>
        /\ Returned(out)
        /\ IsSome(out) => IsTrimmed(out.val)

C9_Witness ==
    /\ pc = "extracted"
    /\ IsSome(out)
    /\ out.val.min_y > CurveMinY(skeleton)
    /\ out.val.max_y < CurveMaxY(skeleton)

\* C10: find_inner_area and cull return None exactly when no covered cell
\* survives, and never return an Area whose Lines are all empty.
C10_NoneIffNothingSurvives ==
    /\ pc \in {"culled", "extracted"} =>
            /\ Returned(out)
            /\ IsSome(out) => Area_coverage(out.val) > 0
    /\ pc = "culled" =>
            (out = None <=> CellsOf(back) \ CellsOf(front) = {})
    /\ pc = "extracted" =>
            (out = None <=>
                \/ Len(skeleton) <= 1
                \/ \A r \in 1..Len(InnerLines(skeleton)) :
                        ColsOf(InnerLines(skeleton)[r]) = {})

C10_Witness ==
    /\ pc = "culled"
    /\ out = None
    /\ Area_coverage(back) >= 3
    /\ IsTrimmed(back) /\ IsTrimmed(front)
    /\ Area_coverage(front) > Area_coverage(back)

(***************************************************************************)
(* Properties of the skeleton and of the extractor's failure modes.        *)
(***************************************************************************)
Adjacent(p, q) == Abs(q.x - p.x) <= 1 /\ Abs(q.y - p.y) <= 1

\* C11: all adjacent pairs of the output of interpolate satisfy
\* max(|dx|, |dy|) <= 1, whatever the distance between consecutive inputs.
C11_EightConnected ==
    pc \in {"skeleton", "line"} =>
        \A i \in 1..(Len(skeleton) - 1) : Adjacent(skeleton[i], skeleton[i+1])

\* the cells a curve encloses: the cells of its bounding box that are not
\* on the curve and that no path of horizontal and vertical steps avoiding
\* the curve joins to the outside of the box
OnCurve(curve) == {<<curve[i].x, curve[i].y>> : i \in 1..Len(curve)}

Box(curve) ==
    LET xs == {curve[i].x : i \in 1..Len(curve)}
        ys == {curve[i].y : i \in 1..Len(curve)}
    IN  {<<x, y>> : x \in (SetMin(xs) - 1)..(SetMax(xs) + 1),
                    y \in (SetMin(ys) - 1)..(SetMax(ys) + 1)}

Neighbours(c) ==
    {<<c[1] + 1, c[2]>>, <<c[1] - 1, c[2]>>, <<c[1], c[2] + 1>>, <<c[1], c[2] - 1>>}

RECURSIVE Flood(_, _)
Flood(reached, free) ==
    LET more == {c \in free \ reached : Neighbours(c) \cap reached # {}}
    IN  IF more = {} THEN reached ELSE Flood(reached \cup more, free)

Enclosed(curve) ==
    LET free == Box(curve) \ OnCurve(curve)
        xs == {curve[i].x : i \in 1..Len(curve)}
    IN  free \ Flood({<<SetMin(xs) - 1, curve[1].y>>}, free)

IsClosed(curve) == curve[1] = curve[Len(curve)]

\* C12 as claimed: find_inner_area never panics, and returns None for a
\* skeleton with at most one point, one that is not closed, or one that
\* encloses no cell.
C12_NoneWhenOpenOrEmpty ==
    pc = "extracted" =>
        /\ Returned(out)
        /\ (Len(skeleton) <= 1 \/ ~IsClosed(skeleton) \/ Enclosed(skeleton) = {})
                => out = None

\* C12 as amended: find_inner_area never panics, and returns None for a
\* skeleton with at most one point and for a closed skeleton that encloses
\* no cell; a skeleton that is not closed may yield an Area.
C12_NoPanicNoneWhenDegenerate ==
    /\ pc = "extracted" =>
            /\ Returned(out)
            /\ (Len(skeleton) <= 1 \/ (IsClosed(skeleton) /\ Enclosed(skeleton) = {}))
                    => out = None
    /\ pc = "rowed" => IsSome(row)

C12_Witness ==
    /\ pc = "extracted"
    /\ Len(skeleton) >= 5
    /\ IsClosed(skeleton)
    /\ CurveMaxY(skeleton) > CurveMinY(skeleton)
    /\ \E i \in 1..(Len(skeleton) - 1) :
            Abs(skeleton[i+1].x - skeleton[i].x) + Abs(skeleton[i+1].y - skeleton[i].y) = 1
    /\ Enclosed(skeleton) = {}
    /\ out = None


(***************************************************************************)
(* The layer resolver.                                                     *)
(***************************************************************************)
PetalsAt(all_layers) ==
    {<<l, p>> : l \in 1..Len(all_layers), p \in 1..MaxShapes} \cap
    UNION {{<<l, p>> : p \in 1..Len(all_layers[l])} : l \in 1..Len(all_layers)}

SameButArea(petal, other_petal) ==
    /\ petal.skeleton = other_petal.skeleton
    /\ petal.left_side_angle = other_petal.left_side_angle
    /\ petal.center_angle = other_petal.center_angle
    /\ petal.right_side_angle = other_petal.right_side_angle

ShrinksTo(area, smaller_area) ==
    /\ Returned(smaller_area)
    /\ CellsOfOpt(smaller_area) \subseteq CellsOfOpt(area)

\* one step of the resolver leaves the petals where they are, changes none
\* of their fields but the area, and makes no area larger
StepShrinks ==
    /\ PetalsAt(layers') = PetalsAt(layers)
    /\ \A lp \in PetalsAt(layers) :
           /\ SameButArea(layers[lp[1]][lp[2]], layers'[lp[1]][lp[2]])
           /\ ShrinksTo(layers[lp[1]][lp[2]].area, layers'[lp[1]][lp[2]].area)
    /\ (pc = "culling" /\ pc' = "culling") => ShrinksTo(visible_area, visible_area')

WithinOriginal ==
    /\ PetalsAt(layers) = PetalsAt(input_layers)
    /\ \A lp \in PetalsAt(layers) :
           /\ SameButArea(input_layers[lp[1]][lp[2]], layers[lp[1]][lp[2]])
           /\ ShrinksTo(input_layers[lp[1]][lp[2]].area, layers[lp[1]][lp[2]].area)
    /\ pc = "culling" => ShrinksTo(layers[layer_i][petal_index].area, visible_area)

\* C13: while the layers are resolved the area of a petal only shrinks: every
\* cull step yields a subset of the area it started from, the final area is
\* a subset of the original one, and no other field of a petal changes.
C13_AreaOnlyShrinks == []WithinOriginal /\ [][StepShrinks]_vars

\* a resolved petal that lost a part of its area and kept a part
C13_Witness ==
    /\ pc = "resolved"
    /\ \E lp \in PetalsAt(layers) :
           /\ CellsOfOpt(layers[lp[1]][lp[2]].area) # {}
           /\ CellsOfOpt(layers[lp[1]][lp[2]].area) #
                  CellsOfOpt(input_layers[lp[1]][lp[2]].area)

\* every petal handed to the resolver covers at least one cell
AllInputsVisible ==
    \A lp \in PetalsAt(input_layers) : IsSome(input_layers[lp[1]][lp[2]].area)

\* the petals whose area is empty
EmptyPetals(all_layers) ==
    {lp \in PetalsAt(all_layers) : CellsOfOpt(all_layers[lp[1]][lp[2]].area) = {}}

\* C14: a petal whose area becomes empty is dropped at once, without testing
\* further occluders, and a layer left without petals is dropped: the
\* resolved layers hold no petal with an empty area and no empty layer.
C14_EmptyShapesDropped ==
    AllInputsVisible =>
        /\ (pc = "culling" /\ ~IsSome(visible_area)) => Len(overlapping_petals) = 0
        /\ pc \in {"resolved", "drawn"} =>
               /\ EmptyPetals(layers) = {}
               /\ \A l \in 1..Len(layers) : Len(layers[l]) > 0

\* C15: generation fails after the resolver exactly when every layer has
\* become empty; in every other case it completes with the remaining layers.
C15_FailsIffAllEmpty ==
    (AllInputsVisible /\ pc = "drawn") =>
        (~IsSome(out) <=> EmptyPetals(layers) = PetalsAt(layers))

\* C16: the occluders may be subtracted in any order: what is left of the
\* back area after the first and then the second occluder covers the same
\* cells as what is left after the second and then the first.
C16_OrderOfOccluders ==
    pc = "ordered" =>
        LET swapped == optimize_back_area(Some(back), <<front_areas[2], front_areas[1]>>)
        IN  /\ out.tag = swapped.tag
            /\ CellsOfOpt(out) = CellsOfOpt(swapped)

\* the petals in front of petal p of layer l: the petals of the same layer
\* drawn after it and all petals of the later layers
InFront(l, p) ==
    {lp \in PetalsAt(layers) :
        \/ lp[1] > l
        \/ lp[1] = l /\ orders[l][lp[2]] > orders[l][p]}

SubtractedFrom(l, p) == {subtracted[l][p][k] : k \in 1..Len(subtracted[l][p])}

\* C20: the petals subtracted from a petal are exactly the petals in front
\* of it, those of its layer with a higher draw-order rank and all petals of
\* the later layers, whatever the side angles; never the petal itself, a
\* petal of lower rank or a petal of an earlier layer.
C20_SubtractsExactlyFront ==
    /\ pc \in {"resolved", "drawn"} =>
           \A lp \in PetalsAt(layers) : SubtractedFrom(lp[1], lp[2]) = InFront(lp[1], lp[2])
    /\ pc \in {"petal", "culling"} =>
           \A lp \in PetalsAt(layers) : SubtractedFrom(lp[1], lp[2]) \subseteq InFront(lp[1], lp[2])

\* a resolved petal behind a petal of its own layer whose sector does not
\* meet its own, with a petal of lower rank and an earlier layer left alone
C20_Witness ==
    /\ pc = "resolved"
    /\ Len(layers) > 1
    /\ \E p \in 1..Len(layers[2]) : \E q \in 1..Len(layers[2]) :
           /\ <<2, q>> \in SubtractedFrom(2, p)
           /\ ~overlaps(layers[2][p], layers[2][q])
           /\ <<2, p>> \notin SubtractedFrom(2, q)
           /\ <<1, 1>> \notin SubtractedFrom(2, p)
           /\ <<2, p>> \in SubtractedFrom(1, 1)

(***************************************************************************)
(* The random source.                                                      *)
(***************************************************************************)
\* C17: after any number of draws from a RestorableRng created with seed s,
\* restore() returns a generator that gives the words of a new
\* RestorableRng::new(s) from the first on, and the call leaves the
\* generator it is made on as it was.
C17_RestoreIsFresh ==
    /\ [](IsSome(restored) =>
             restored_values =
                 Words(RestorableRng_new(created_seed), Len(restored_values)))
    /\ [][(restored_after' # restored_after \/
               (restored' # restored /\ restored_values' = <<>>)) =>
              random' = random]_vars

\* restore() called after two words or more, and two words drawn from the
\* restored generator
C17_Witness ==
    /\ IsSome(restored)
    /\ restored_after >= 2
    /\ Len(restored_values) >= 2

(***************************************************************************)
(* The polar evaluator.                                                    *)
(***************************************************************************)
\* C18: with mirror the polar evaluator returns the curve it returns
\* without mirror for the same other arguments, with the x-coordinate of
\* every point negated and the y-coordinate unchanged.
C18_MirrorNegatesX ==
    (pc = "curve" /\ polar.val.mirror /\ IsSome(out)) =>
        LET plain == eval_polar(polar.val.k, polar.val.step, polar.val.angle,
                                FALSE, polar.val.func).val
        IN  /\ out.val.length = plain.length
            /\ \A i \in Kept(plain.length) :
                   out.val.points[i] = Mirrored_x(plain.points[i])

\* C19: for k > 0 and step > 0 the polar evaluator returns
\* floor((inverseTrigFn(1.0) / k) / step) points, the i-th sampled at
\* theta = i * step, so that every sampled theta, the last one included, is
\* below inverseTrigFn(1.0) / k; a count of 0 gives the empty curve.  The
\* quotient is taken in f32, as the evaluator takes it.
C19_LengthAndThetas ==
    pc = "curve" =>
        /\ IsSome(out)
        /\ LET bound == F32Div(arc_trig_func(polar.val.func), polar.val.k)
               count == F32Trunc(F32Div(bound, polar.val.step))
           IN  /\ out.val.length = count
               /\ DOMAIN out.val.points = Kept(count)
               /\ \A i \in Kept(count) : F32Less(SampleTheta(i, polar.val.step), bound)
               /\ count = 0 => out.val.points = <<>>

\* the petal in front of all petals whose original area covers the cell
FrontMost(cell) ==
    CHOOSE lp \in PetalsAt(input_layers) :
        /\ cell \in CellsOfOpt(input_layers[lp[1]][lp[2]].area)
        /\ \A other \in PetalsAt(input_layers) :
               cell \in CellsOfOpt(input_layers[other[1]][other[2]].area) =>
                   \/ other[1] < lp[1]
                   \/ other[1] = lp[1] /\ orders[lp[1]][other[2]] <= orders[lp[1]][lp[2]]

OriginalCells ==
    UNION {CellsOfOpt(input_layers[lp[1]][lp[2]].area) : lp \in PetalsAt(input_layers)}

\* C21: after the resolver the visible areas are pairwise disjoint, and
\* every cell covered by an original area belongs to the final area of
\* exactly one petal, the front-most petal whose original area covers it.
C21_FrontMostOwnsCell ==
    pc = "resolved" =>
        \A cell \in OriginalCells :
            {lp \in PetalsAt(layers) : cell \in CellsOfOpt(layers[lp[1]][lp[2]].area)}
                = {FrontMost(cell)}

(***************************************************************************)
(* The steps inside find_inner_area.                                       *)
(***************************************************************************)
\* the rows of the skeleton, 1-based, and the row of a y-coordinate
SkeletonRows == 1..((CurveMaxY(skeleton) - CurveMinY(skeleton)) + 1)

RowOf(y) == (y - CurveMinY(skeleton)) + 1

\* the anchors with synthetic standing on row at, when that row has an odd
\* number of anchors
WithSynthetic(passed, at, synthetic) ==
    [r \in 1..Len(passed) |->
        IF r = at /\ Len(passed[r]) % 2 # 0 THEN Append(passed[r], synthetic)
        ELSE passed[r]]

\* C22 as stated: the row y = 0 receives the synthetic anchor 0 when its
\* number of anchors is odd, and no other row receives one.
C22_ParityOnRowZero ==
    (pc = "extracted" /\ Len(skeleton) > 1) =>
        RawAnchors(skeleton) = WithSynthetic(PassedAnchors(skeleton), RowOf(0), 0)

\* C22: the parity correction is applied to the row of the first point of
\* the skeleton: when that row has an odd number of anchors, the
\* x-coordinate of the first point is appended as a synthetic anchor, and
\* no other row receives a synthetic anchor.
C22_ParityOnFirstPointRow ==
    (pc = "extracted" /\ Len(skeleton) > 1) =>
        RawAnchors(skeleton) =
            WithSynthetic(PassedAnchors(skeleton), RowOf(skeleton[1].y), skeleton[1].x)

\* a skeleton that starts off the row y = 0 and off the column x = 0, with
\* an odd number of anchors on its first point's row and on another row
C22_Witness ==
    /\ pc = "extracted"
    /\ Len(skeleton) > 1
    /\ skeleton[1].y # 0
    /\ skeleton[1].x # 0
    /\ Len(PassedAnchors(skeleton)[RowOf(skeleton[1].y)]) % 2 # 0
    /\ \E r \in SkeletonRows :
           r # RowOf(skeleton[1].y) /\ Len(PassedAnchors(skeleton)[r]) % 2 # 0

\* the pairs (a[0],a[1]), (a[2],a[3]), .. of the sorted anchors, and the
\* last two anchors once more when their number is odd and at least 3
PairsOf(anchors) ==
    [j \in 1..(Len(anchors) \div 2) |-> <<anchors[(2 * j) - 1], anchors[2 * j]>>]
    \o (IF Len(anchors) % 2 = 1 /\ Len(anchors) >= 3
        THEN <<<<anchors[Len(anchors) - 1], anchors[Len(anchors)]>>>>
        ELSE <<>>)

\* C23: on a row the sorted anchors are paired as (a[0],a[1]), (a[2],a[3]),
\* .. to form the candidate ranges; an odd number of at least 3 anchors
\* pairs the last two anchors once more; fewer than two anchors give no
\* range, and every range of the row lies within one of the pairs.
C23_AnchorPairs ==
    pc = "rowed" =>
        LET pairs == CandidatePairs(row_anchors)
        IN  /\ [j \in 1..Len(pairs) |-> <<pairs[j].x1, pairs[j].x2>>] = PairsOf(row_anchors)
            /\ IsSome(row)
            /\ Len(row_anchors) < 2 => row.val = <<>>
            /\ \A i \in 1..Len(row.val) : \E j \in 1..Len(pairs) :
                   pairs[j].x1 < row.val[i].from /\ row.val[i].to < pairs[j].x2

\* a row with an odd number of anchors, three or more, whose last two
\* anchors give a range
C23_Witness ==
    /\ pc = "rowed"
    /\ Len(row_anchors) % 2 = 1
    /\ Len(row_anchors) >= 3
    /\ IsSome(row)
    /\ \E i \in 1..Len(row.val) :
           /\ row_anchors[Len(row_anchors) - 1] < row.val[i].from
           /\ row.val[i].to < row_anchors[Len(row_anchors)]
           /\ row_anchors[Len(row_anchors) - 2] < row_anchors[Len(row_anchors) - 1]

\* the x-coordinates of the row's skeleton points
LineXs(line) == {line[i] : i \in 1..Len(line)}

\* x1 moved inward over the row's x-coordinates below x2 that are at most
\* 1 apart
InwardX1(line, x1, x2) ==
    CHOOSE v \in x1..(x2 - 1) :
        /\ \A u \in x1..v : u \in LineXs(line)
        /\ (v + 1 < x2 => (v + 1) \notin LineXs(line))

\* x2 moved inward, symmetrically, over the x-coordinates above the moved x1
InwardX2(line, t1, x2) ==
    CHOOSE v \in (t1 + 1)..x2 :
        /\ \A u \in v..x2 : u \in LineXs(line)
        /\ (v - 1 > t1 => (v - 1) \notin LineXs(line))

\* what one candidate pair gives: Range(x1 + 1, x2 - 1) of the moved pair
\* when it is more than 1 apart
PairRange(line, x1, x2) ==
    IF x2 - x1 <= 1 THEN <<>>
    ELSE LET t1 == InwardX1(line, x1, x2)
             t2 == InwardX2(line, t1, x2)
         IN  IF t2 - t1 > 1 THEN <<[from |-> t1 + 1, to |-> t2 - 1]>> ELSE <<>>

RECURSIVE PairRanges(_, _)
PairRanges(line, pairs) ==
    IF pairs = <<>> THEN <<>>
    ELSE PairRange(line, Head(pairs)[1], Head(pairs)[2]) \o PairRanges(line, Tail(pairs))

\* C24: each candidate pair (x1, x2) of a row has x1 moved inward over the
\* row's skeleton x-coordinates that are at most 1 apart and x2 moved inward
\* symmetrically; it gives Range(x1 + 1, x2 - 1) of the moved pair when
\* x2 - x1 > 1 still holds and nothing otherwise, and every range given lies
\* strictly between the original pair.
C24_TrimmedPairs ==
    pc = "rowed" =>
        /\ IsSome(row)
        /\ row.val = PairRanges(row_xs, PairsOf(row_anchors))
        /\ \A j \in 1..Len(PairsOf(row_anchors)) :
               LET pair == PairsOf(row_anchors)[j]
                   given == PairRange(row_xs, pair[1], pair[2])
               IN  given # <<>> => pair[1] < given[1].from /\ given[1].to < pair[2]

\* a pair whose both ends were moved inward and that still gives a range
C24_Witness ==
    /\ pc = "rowed"
    /\ IsSome(row)
    /\ \E j \in 1..Len(PairsOf(row_anchors)) :
           LET pair == PairsOf(row_anchors)[j]
               given == PairRange(row_xs, pair[1], pair[2])
           IN  /\ given # <<>>
               /\ given = row.val
               /\ pair[1] + 1 < given[1].from
               /\ given[1].to < pair[2] - 1

\* C25: for a closed 8-connected skeleton, no cell of the Area that
\* find_inner_area returns is a point of the skeleton, and every covered
\* cell lies on a row between the skeleton's lowest and highest y and
\* strictly between the lowest and highest x of the skeleton on that row.
C25_InsideSkeleton ==
    (pc = "extracted" /\ IsClosed(skeleton)
        /\ \A i \in 1..(Len(skeleton) - 1) : Adjacent(skeleton[i], skeleton[i+1])) =>
        /\ Returned(out)
        /\ CellsOfOpt(out) \cap OnCurve(skeleton) = {}
        /\ \A c \in CellsOfOpt(out) :
               LET xs == {skeleton[i].x : i \in {k \in 1..Len(skeleton) : skeleton[k].y = c[2]}}
               IN  /\ CurveMinY(skeleton) <= c[2]
                   /\ c[2] <= CurveMaxY(skeleton)
                   /\ xs # {}
                   /\ SetMin(xs) < c[1]
                   /\ c[1] < SetMax(xs)

\* a closed skeleton that encloses two cells, both of them returned
C25_Witness ==
    /\ pc = "extracted"
    /\ IsClosed(skeleton)
    /\ \A i \in 1..(Len(skeleton) - 1) : Adjacent(skeleton[i], skeleton[i+1])
    /\ IsSome(out)
    /\ CellsOfOpt(out) = Enclosed(skeleton)
    /\ Cardinality(CellsOfOpt(out)) >= 2

(***************************************************************************)
(* scale and merge.                                                        *)
(***************************************************************************)
\* the value of a coordinate as a fraction num / 2^exp in lowest terms
RECURSIVE Lowest(_, _)
Lowest(num, exp) ==
    IF num # 0 /\ num % 2 = 0 /\ exp > 0 THEN Lowest(num \div 2, exp - 1)
    ELSE [num |-> num, exp |-> exp]

\* round(c * size) on the reals, halves away from zero
RoundedProduct(c, size) ==
    LET q == Lowest(c.mag.man, c.mag.exp)
        r == ((2 * q.num * size) + Pow2(q.exp)) \div Pow2(q.exp + 1)
    IN  IF c.neg THEN -r ELSE r

Clamped(n) == IF n > 32767 THEN 32767 ELSE IF n < -32768 THEN -32768 ELSE n

\* of a sequence, the elements that differ from their predecessor
RECURSIVE WithoutRepeats(_)
WithoutRepeats(seq) ==
    IF Len(seq) <= 1 THEN seq
    ELSE LET front_part == WithoutRepeats(SubSeq(seq, 1, Len(seq) - 1))
         IN  IF seq[Len(seq)] = seq[Len(seq) - 1] THEN front_part
             ELSE front_part \o <<seq[Len(seq)]>>

ScaledAsClaimed ==
    [i \in 1..Len(scaling.val.curve) |->
        Point(RoundedProduct(scaling.val.curve[i].x, scaling.val.factor),
              RoundedProduct(scaling.val.curve[i].y, scaling.val.factor))]

ScaledClamped ==
    [i \in 1..Len(ScaledAsClaimed) |->
        Point(Clamped(ScaledAsClaimed[i].x), Clamped(ScaledAsClaimed[i].y))]

NoRepeatKeepsFirst(scaled) ==
    /\ \A i \in 1..(Len(out.val) - 1) : out.val[i] # out.val[i+1]
    /\ (out.val = <<>>) <=> (scaling.val.curve = <<>>)
    /\ out.val # <<>> => out.val[1] = scaled[1]

\* C26 as claimed: scale maps each point to (round(x * size), round(y * size))
\* and drops a scaled point only when it equals the previously kept one:
\* the output has no two equal adjacent points, keeps the order of the
\* input, starts with the scaled first point, and is empty only for an
\* empty input.
C26_ScaledRoundedDeduplicated ==
    (pc = "scaled" /\ IsSome(out)) =>
        /\ out.val = WithoutRepeats(ScaledAsClaimed)
        /\ NoRepeatKeepsFirst(ScaledAsClaimed)

\* C26 as amended: the same, with each rounded coordinate clamped to the
\* i16 range [-32768, 32767].
C26_ScaledClampedDeduplicated ==
    (pc = "scaled" /\ IsSome(out)) =>
        /\ out.val = WithoutRepeats(ScaledClamped)
        /\ NoRepeatKeepsFirst(ScaledClamped)

\* three points of which the second scales to the first and is dropped, and
\* the third is kept
C26_Witness ==
    /\ pc = "scaled"
    /\ IsSome(out)
    /\ Len(scaling.val.curve) = 3
    /\ scaling.val.curve[1] # scaling.val.curve[2]
    /\ Len(out.val) = 2
    /\ out.val[1] = ScaledClamped[2]
    /\ out.val[2] = ScaledClamped[3]
    /\ out.val[1].x < 0

\* C27: merge in side-with-side mode on two fragments A and B returns the
\* points of A in order followed by the points of B in reverse order; the
\* length is |A| + |B|, no point is added or removed.
C27_ForwardThenReversed ==
    (pc = "merged" /\ merging.val.mode.kind = "ZigZag" /\ Len(merging.val.curves) = 2) =>
        LET A == merging.val.curves[1]
            B == merging.val.curves[2]
        IN  /\ IsSome(out)
            /\ Len(out.val) = Len(A) + Len(B)
            /\ \A i \in 1..Len(A) : out.val[i] = A[i]
            /\ \A j \in 1..Len(B) : out.val[Len(A) + j] = B[(Len(B) + 1) - j]

\* two fragments of two different points each
C27_Witness ==
    /\ pc = "merged"
    /\ merging.val.mode.kind = "ZigZag"
    /\ Len(merging.val.curves) = 2
    /\ Len(merging.val.curves[1]) = 2
    /\ Len(merging.val.curves[2]) = 2
    /\ merging.val.curves[2][1] # merging.val.curves[2][2]
    /\ IsSome(out)
    /\ out.val[3] = merging.val.curves[2][2]
    /\ out.val[4] = merging.val.curves[2][1]

\* where the points of fragment k start in the output of the
\* origin-anchored mode: after the earlier fragments and their origin points
RECURSIVE StartOf(_, _)
StartOf(curves, k) ==
    IF k = 1 THEN 0 ELSE StartOf(curves, k - 1) + Len(curves[k - 1]) + 1

CullBounded ==
    pc \in {"rows", "ranges", "culled"} =>
        /\ frame.val.rows <= Len(back.lines) + Len(front.lines)
        /\ pc = "ranges" =>
               frame.val.steps <= Len(Area_line(back, frame.val.back_y))
                                    + Len(Area_line(front, frame.val.front_y))

\* an iteration of the row loop that ends increases back_y or front_y, an
\* iteration of the range loop increases one of the two range indices, and
\* neither is ever decreased
CullProgress ==
    /\ (pc \in {"rows", "ranges"} /\ pc' = "rows") =>
           /\ frame'.val.back_y >= frame.val.back_y
           /\ frame'.val.front_y >= frame.val.front_y
           /\ frame'.val.back_y > frame.val.back_y \/ frame'.val.front_y > frame.val.front_y
    /\ (pc = "ranges" /\ pc' = "ranges") =>
           /\ frame'.val.back_line_index >= frame.val.back_line_index
           /\ frame'.val.front_line_index >= frame.val.front_line_index
           /\ \/ frame'.val.back_line_index > frame.val.back_line_index
              \/ frame'.val.front_line_index > frame.val.front_line_index

\* C29: cull terminates for all inputs: every iteration of the row loop
\* increases back_y or front_y and every iteration of the range loop of a
\* row increases the back or the front range index, so the loops end after
\* at most (rows of back + rows of front) and (ranges of the back row +
\* ranges of the front row) iterations.
C29_CullTerminates ==
    /\ []CullBounded
    /\ [][CullProgress]_vars
    /\ <>(pc = "culled")

\* cull has returned after two iterations of the row loop, one of them
\* with two iterations of the range loop
C29_Witness ==
    /\ pc = "culled"
    /\ Returned(out)
    /\ frame.val.rows >= 2
    /\ frame.val.steps >= 2

\* the steps give what the function gives
CullStepsAgree == pc = "culled" => out = cull(back, front)

(***************************************************************************)
(* The width of the coordinates.                                           *)
(***************************************************************************)
\* C30: with all coordinates of the skeletons and Areas within
\* [-MAX_RADIUS, MAX_RADIUS], MAX_RADIUS = 16382, no 16-bit signed
\* computation of Area::new, Area::optimize, Line::coverage, find_inner_area
\* or cull overflows: every y-span, row index and range width fits an i16.
C30_NoI16Overflow ==
    pc \in {"Area::new i16", "Area::optimize i16", "Line::coverage i16",
           "find_inner_area i16", "cull i16"} =>
        \A c \in out.val : c.kept = c.exact /\ -32768 <= c.exact /\ c.exact <= 32767

\* the widest case: coordinates from -MAX_RADIUS to MAX_RADIUS, whose span
\* 32764 and row count 32765 have been computed by find_inner_area
C30_Witness ==
    /\ pc = "find_inner_area i16"
    /\ MAX_RADIUS = 16382
    /\ extent.val.lo = -16382
    /\ extent.val.hi = 16382
    /\ \E c \in out.val : c.exact = 32764
    /\ \E c \in out.val : c.exact = 32765
====
